---- MODULE Spec2Model ----
(***************************************************************************)
(* A model of the ingestion / retrieval core of kbservice:                 *)
(*   - document.CharacterSplitter and document.CreateDocuments,            *)
(*   - the embedder (adapters/openai) as seen by the facade,               *)
(*   - the pgvector store (rows, filter clauses, ordering, scores),        *)
(*   - vectorstore.VectorStore (the retrieval facade),                     *)
(*   - kb.KnowledgeBase.Sync and the channel pair of datasource.Stream.    *)
(* The store, the embedder, the two splitters (document.CharacterSplitter  *)
(* and document.TiktokenSplitter) and the metadata maps of the chunks are  *)
(* also exercised on their own, each under its own specification.          *)
(* Texts are sequences of one-character strings.  Scores and distances are *)
(* exact rationals <<numerator, denominator>> with a positive denominator. *)
(***************************************************************************)
EXTENDS Integers, Sequences, FiniteSets, TLC

VARIABLES
    store,          \* the rows of the pgvector table, in insertion (id) order
    dimension,      \* PGVectorStore.dimension
    distance,       \* PGVectorStore.distance
    threshold,      \* VectorStore.opts.ScoreThreshold
    defaultFilter,  \* VectorStore.opts.Filters
    searchOut,      \* the SimilaritySearch call that is returning to its caller: what it
                    \* passed to the store and what it returns
    pc,             \* position of the Sync call: "idle", "select" or "returned"
    result,         \* the value the last Sync call returned
    outcome,        \* what Sync did with the last document it received, and the calls
                    \* it made for it
    docChan,        \* documents sent on the document channel and not yet received
    docClosed,      \* the document channel has been closed
    errChan,        \* errors sent on the error channel and not yet received
    errClosed,      \* the error channel has been closed
    sent,           \* number of documents the data source has produced so far
    cancelled,      \* the context given to Sync has been cancelled
    embedCalls,     \* number of Embedder.EmbedDocuments calls made so far
    addCalls,       \* number of Store.AddDocuments calls made so far
    addOut,         \* the Store.AddDocuments call that is returning to its caller
    embedOut,       \* the Embedder call that is returning to its caller, with the
                    \* requests it made to the provider
    split,          \* the splitter call in progress or returning to its caller
    heap,           \* the metadata maps in memory, by address
    schema,         \* what InitDB has created in the database: extension, table, indexes
    initOut,        \* the PGVectorStore.InitDB call that is returning to its caller
    scoreOut,       \* a pair of operator values and the similarity computed for each
    conversations,  \* InMemoryRepository.conversations
    mu,             \* InMemoryRepository.mu: the writer and the readers holding it
    callers         \* the goroutines calling the chat history, each with the call it
                    \* is in, its position in it and its local variables

vars == <<store, dimension, distance, threshold, defaultFilter, searchOut, pc, result,
          outcome, docChan, docClosed, errChan, errClosed, sent, cancelled,
          embedCalls, addCalls, addOut, embedOut, split, heap, schema, initOut,
          scoreOut, conversations, mu, callers>>

\* the state of the components exercised on their own
chatVars == <<conversations, mu, callers>>
extVars == <<schema, initOut, scoreOut, chatVars>>
unitVars == <<addOut, embedOut, split, heap, extVars>>

storeVars == <<store, dimension, distance, threshold, defaultFilter>>
syncVars == <<pc, result, outcome, docChan, docClosed, errChan, errClosed, sent,
              cancelled, embedCalls, addCalls>>

(***************************************************************************)
(* Bounds of the model.                                                    *)
(***************************************************************************)
MaxDocs == 2        \* documents a data source produces over all Sync runs
ChanCap == 1        \* sends that can be pending on a channel
MaxRows == 3        \* rows added through the facade in the retrieval model
MaxLimit == 2       \* largest limit a search asks for
ChunkSize == 3      \* CharacterSplitter.ChunkSize
ChunkOverlap == 1   \* CharacterSplitter.ChunkOverlap
BatchSize == 2      \* EmbeddingOptions.BatchSize

(***************************************************************************)
(* Values: metadata values are tagged with their Go dynamic type.          *)
(***************************************************************************)
Str(s) == [kind |-> "string", v |-> s]
\* a time.Time; v is its RFC 3339 rendering
Time(s) == [kind |-> "time", v |-> s]
Nil == [kind |-> "nil", v |-> ""]
Null == [kind |-> "null", v |-> ""]

\* m[k] of a Go map: the zero value (nil interface) when the key is absent
Get(m, k) == IF k \in DOMAIN m THEN m[k] ELSE Nil

\* m with m[k] = v assigned
Put(m, k, v) == [x \in DOMAIN m \cup {k} |-> IF x = k THEN v ELSE m[x]]

EmptyMap == [x \in {} |-> Nil]

\* x.(string) with the comma-ok form: the zero value "" for a non-string
AssertString(x) == IF x.kind = "string" THEN x.v ELSE ""

\* encoding/json of a metadata value, as pgx stores it in the JSONB column:
\* a time.Time is marshalled to a JSON string holding its RFC 3339 text
ToJSON(x) == IF x.kind = "time" THEN Str(x.v)
             ELSE IF x.kind = "nil" THEN Null
             ELSE x

MarshalMetadata(m) == [k \in DOMAIN m |-> ToJSON(m[k])]

\* metadata->>'key' : the text of a JSON value, SQL NULL for an absent key or null
JSONText(meta, k) == IF k \in DOMAIN meta /\ meta[k].kind = "string"
                     THEN Str(meta[k].v)
                     ELSE Null

\* `metadata->>'key' = $n` : NULL compares equal to nothing
SQLTextEq(col, param) == col.kind = "string" /\ col.v = param

(***************************************************************************)
(* Text helpers (package strings).                                         *)
(***************************************************************************)
WhiteSpace == {" ", "\n"}

HasPrefix(s, p) == Len(s) >= Len(p) /\ SubSeq(s, 1, Len(p)) = p

Drop(s, n) == SubSeq(s, n + 1, Len(s))

RECURSIVE SplitAcc(_, _, _)
SplitAcc(rest, sep, piece) ==
    IF rest = <<>> THEN <<piece>>
    ELSE IF HasPrefix(rest, sep)
         THEN <<piece>> \o SplitAcc(Drop(rest, Len(sep)), sep, <<>>)
         ELSE SplitAcc(Tail(rest), sep, Append(piece, Head(rest)))

\* strings.Split(text, sep) for a non-empty sep
StringsSplit(text, sep) == SplitAcc(text, sep, <<>>)

RECURSIVE TrimLeft(_)
TrimLeft(s) == IF s # <<>> /\ Head(s) \in WhiteSpace THEN TrimLeft(Tail(s)) ELSE s

RECURSIVE TrimRight(_)
TrimRight(s) == IF s # <<>> /\ s[Len(s)] \in WhiteSpace
                THEN TrimRight(SubSeq(s, 1, Len(s) - 1))
                ELSE s

TrimSpace(s) == TrimRight(TrimLeft(s))

(***************************************************************************)
(* document.CharacterSplitter                                              *)
(***************************************************************************)
Separator == <<" ">>

CharacterSplitter == [ChunkSize |-> ChunkSize, ChunkOverlap |-> ChunkOverlap,
                      Separator |-> Separator]

\* the text the next buffer is seeded with after a chunk has been closed
OverlapSeed(cs, current) ==
    IF cs.ChunkOverlap > 0
    THEN IF Len(current) > cs.ChunkOverlap
         THEN SubSeq(current, Len(current) - cs.ChunkOverlap + 1, Len(current))
         ELSE current
    ELSE <<>>

\* the loop over the pieces.  closed: the buffers closed so far, each with the
\* overlap text it was seeded with; current: the running buffer; seed: the
\* overlap text the running buffer was seeded with
RECURSIVE SplitLoop(_, _, _, _, _, _)
SplitLoop(cs, parts, i, closed, current, seed) ==
    IF i > Len(parts)
    THEN IF Len(current) > 0
         THEN Append(closed, [buffer |-> current, seed |-> seed])
         ELSE closed
    ELSE LET close == Len(current) + Len(parts[i]) + 1 > cs.ChunkSize /\ Len(current) > 0
             closed1 == IF close THEN Append(closed, [buffer |-> current, seed |-> seed])
                        ELSE closed
             current1 == IF close THEN OverlapSeed(cs, current) ELSE current
             seed1 == IF close THEN current1 ELSE seed
             current2 == IF Len(current1) > 0 THEN current1 \o cs.Separator ELSE current1
         IN SplitLoop(cs, parts, i + 1, closed1, current2 \o parts[i], seed1)

\* the buffers SplitText closes for text, in order
SplitTrace(cs, text) ==
    IF text = <<>> THEN <<>>
    ELSE SplitLoop(cs, StringsSplit(text, cs.Separator), 1, <<>>, <<>>, <<>>)

\* mutant: a text that fits in one chunk is returned as it is
SplitText_ShortFastPath(cs, text) ==
    IF Len(text) <= cs.ChunkSize THEN <<text>>
    ELSE [k \in 1..Len(SplitTrace(cs, text)) |-> TrimSpace(SplitTrace(cs, text)[k].buffer)]

\* every closed buffer is appended to the chunks trimmed of white space
SplitText(cs, text) ==
    [k \in 1..Len(SplitTrace(cs, text)) |-> TrimSpace(SplitTrace(cs, text)[k].buffer)]

\* separator == "" stands for the default, a single space
NewCharacterSplitter(chunkSize, chunkOverlap, separator) ==
    [ChunkSize |-> chunkSize, ChunkOverlap |-> chunkOverlap,
     Separator |-> IF separator = <<>> THEN <<" ">> ELSE separator]

(***************************************************************************)
(* document.TiktokenSplitter.  A token is the text it stands for; the      *)
(* encoding merges some pairs of characters into one token.                *)
(***************************************************************************)
Merges == {<<"a", "b">>, <<" ", "a">>, <<",", ",">>}

\* encoding.Encode(text, nil, nil): the longest token first, left to right
RECURSIVE Encode(_)
Encode(text) ==
    IF text = <<>> THEN <<>>
    ELSE IF Len(text) >= 2 /\ SubSeq(text, 1, 2) \in Merges
    THEN <<SubSeq(text, 1, 2)>> \o Encode(Drop(text, 2))
    ELSE <<SubSeq(text, 1, 1)>> \o Encode(Tail(text))

\* encoding.Decode(tokens)
RECURSIVE Decode(_)
Decode(tokens) == IF tokens = <<>> THEN <<>> ELSE Head(tokens) \o Decode(Tail(tokens))

NoSplitter == [TokensPerChunk |-> 0, ChunkOverlap |-> 0]

\* mutant: an overlap equal to the window is let through
NewTiktokenSplitter_AllowsEqual(tokensPerChunk, chunkOverlap, encodingOK) ==
    IF tokensPerChunk <= 0 \/ chunkOverlap < 0 \/ chunkOverlap > tokensPerChunk
    THEN [err |-> "SplitterError", ts |-> NoSplitter, loaded |-> FALSE]
    ELSE IF ~encodingOK
    THEN [err |-> "SplitterError", ts |-> NoSplitter, loaded |-> TRUE]
    ELSE [err |-> "nil", loaded |-> TRUE,
          ts |-> [TokensPerChunk |-> tokensPerChunk, ChunkOverlap |-> chunkOverlap]]

\* encodingOK = FALSE: tiktoken.GetEncoding returns an error;
\* loaded: GetEncoding has been called
NewTiktokenSplitter(tokensPerChunk, chunkOverlap, encodingOK) ==
    IF tokensPerChunk <= 0 \/ chunkOverlap < 0 \/ chunkOverlap >= tokensPerChunk
    THEN [err |-> "SplitterError", ts |-> NoSplitter, loaded |-> FALSE]
    ELSE IF ~encodingOK
    THEN [err |-> "SplitterError", ts |-> NoSplitter, loaded |-> TRUE]
    ELSE [err |-> "nil", loaded |-> TRUE,
          ts |-> [TokensPerChunk |-> tokensPerChunk, ChunkOverlap |-> chunkOverlap]]

\* end := start + ts.TokensPerChunk, cut at the number of tokens
WindowEnd(ts, start, n) ==
    IF start + ts.TokensPerChunk > n THEN n ELSE start + ts.TokensPerChunk

\* mutant: the next window starts where this one started
NextStart_Stall(ts, end) == end - ts.TokensPerChunk

\* start = end - ts.ChunkOverlap
NextStart(ts, end) == end - ts.ChunkOverlap

\* ts.SplitText(text) up to its loop: the call returns at once when the text
\* or its token list is empty
TokenStart(ts, text) ==
    LET tokens == IF text = <<>> THEN <<>> ELSE Encode(text)
    IN [op |-> "TokenSplitText", pc |-> IF Len(tokens) = 0 THEN "returned" ELSE "loop",
        ts |-> ts, text |-> text, tokens |-> tokens, start |-> 0, iteration |-> 0,
        chunks |-> <<>>, windows |-> <<>>, err |-> "nil"]

\* one pass of `for start < len(tokens)`; windows: the tokens[start:end] taken
TokenStep(st) ==
    LET n == Len(st.tokens)
        end == WindowEnd(st.ts, st.start, n)
        start1 == NextStart(st.ts, end)
    IN IF ~(st.start < n)
       THEN [st EXCEPT !.pc = "returned"]
       ELSE IF st.iteration + 1 > n
       THEN [st EXCEPT !.pc = "returned", !.iteration = @ + 1, !.chunks = <<>>,
                       !.err = "SplitterError"]
       ELSE [st EXCEPT
               !.iteration = @ + 1,
               !.chunks = Append(@, Decode(SubSeq(st.tokens, st.start + 1, end))),
               !.windows = Append(@, <<st.start, end>>),
               !.start = start1,
               !.pc = IF end = n \/ start1 >= end THEN "returned" ELSE "loop"]

RECURSIVE TokenRun(_)
TokenRun(st) == IF st.pc = "returned" THEN st ELSE TokenRun(TokenStep(st))

\* TiktokenSplitter.SplitText(text): the chunks and the error
TiktokenSplitText(ts, text) == TokenRun(TokenStart(ts, text))

(***************************************************************************)
(* document.CreateDocuments / SplitDocuments                               *)
(***************************************************************************)
copyMetadata(metadata) == [k \in DOMAIN metadata |-> metadata[k]]

RECURSIVE ChunkDocuments(_, _, _)
ChunkDocuments(chunks, metadata, i) ==
    IF i > Len(chunks) THEN <<>>
    ELSE <<[PageContent |-> chunks[i], Metadata |-> copyMetadata(metadata)]>>
         \o ChunkDocuments(chunks, metadata, i + 1)

RECURSIVE CreateDocuments(_, _, _)
CreateDocuments(splitter, texts, metadatas) ==
    IF texts = <<>> THEN <<>>
    ELSE ChunkDocuments(SplitText(splitter, Head(texts)), Head(metadatas), 1)
         \o CreateDocuments(splitter, Tail(texts), Tail(metadatas))

SplitDocuments(splitter, documents) ==
    CreateDocuments(splitter,
                    [i \in 1..Len(documents) |-> documents[i].PageContent],
                    [i \in 1..Len(documents) |-> documents[i].Metadata])

(***************************************************************************)
(* The embedder (adapters/openai OpenAIEmbedder behind embedding.Embedder). *)
(* failAt is the number of the provider request that fails (0: none);      *)
(* reqNo counts the provider requests made before the call.  The model     *)
(* runs the embedder with Normalize = false.                               *)
(***************************************************************************)
EmbedDim == 1

\* the provider's embedding of a text: a fixed vector of EmbedDim components
Embedding(text) ==
    [i \in 1..EmbedDim |->
        IF i # 1 THEN 0
        ELSE IF text # <<>> /\ Head(text) = "d" THEN 0 - (Len(text) + 1)
        ELSE Len(text) + 1]

NoBatch == 0 - 1

\* the options the embedder runs with unless WithBatchSize sets another size
DefaultOptions == [BatchSize |-> BatchSize]

\* the run-time panics of embedInBatches
DivideByZero == "panic: integer divide by zero"
SliceBounds == "panic: slice bounds out of range"

\* a call that ends in a panic
Panic(msg, reqNo) ==
    [err |-> msg, batch |-> NoBatch, vectors |-> <<>>, requests |-> reqNo, sent |-> <<>>,
     depth |-> 1]

\* sent: the Input of each request made to the provider, in the order made;
\* depth: the deepest nesting of EmbedDocuments calls reached
RECURSIVE EmbedDocuments(_, _, _, _), embedInBatches(_, _, _, _, _, _)

\* mutant: an empty list is answered with no vectors and no error
EmbedDocuments_AcceptsEmpty(options, documents, reqNo, failAt) ==
    IF Len(documents) = 0
    THEN [err |-> "nil", batch |-> NoBatch, vectors |-> <<>>, requests |-> reqNo,
          sent |-> <<>>, depth |-> 1]
    ELSE IF Len(documents) > options.BatchSize
    THEN embedInBatches(options, documents, 0, reqNo, failAt, <<>>)
    ELSE IF failAt = reqNo + 1
    THEN [err |-> "APIError", batch |-> NoBatch, vectors |-> <<>>, requests |-> reqNo + 1,
          sent |-> <<documents>>, depth |-> 1]
    ELSE [err |-> "nil", batch |-> NoBatch,
          vectors |-> [i \in 1..Len(documents) |-> Embedding(documents[i])],
          requests |-> reqNo + 1, sent |-> <<documents>>, depth |-> 1]

EmbedDocuments(options, documents, reqNo, failAt) ==
    IF Len(documents) = 0
    THEN [err |-> "EmptyInput", batch |-> NoBatch, vectors |-> <<>>, requests |-> reqNo,
          sent |-> <<>>, depth |-> 1]
    ELSE IF Len(documents) > options.BatchSize
    THEN embedInBatches(options, documents, 0, reqNo, failAt, <<>>)
    ELSE IF failAt = reqNo + 1
    THEN [err |-> "APIError", batch |-> NoBatch, vectors |-> <<>>, requests |-> reqNo + 1,
          sent |-> <<documents>>, depth |-> 1]
    ELSE [err |-> "nil", batch |-> NoBatch,
          vectors |-> [i \in 1..Len(documents) |-> Embedding(documents[i])],
          requests |-> reqNo + 1, sent |-> <<documents>>, depth |-> 1]

\* mutant: a last batch shorter than BatchSize is never sent
RECURSIVE embedInBatches_DropTail(_, _, _, _, _, _)
embedInBatches_DropTail(options, documents, i, reqNo, failAt, allEmbeddings) ==
    IF i + options.BatchSize > Len(documents) \/ options.BatchSize <= 0
    THEN [err |-> "nil", batch |-> NoBatch, vectors |-> allEmbeddings, requests |-> reqNo,
          sent |-> <<>>, depth |-> 1]
    ELSE LET r == EmbedDocuments(options,
                                 SubSeq(documents, i + 1, i + options.BatchSize),
                                 reqNo, failAt)
         IN IF r.err # "nil"
            THEN [err |-> r.err, batch |-> i \div options.BatchSize, vectors |-> <<>>,
                  requests |-> r.requests, sent |-> r.sent, depth |-> 1 + r.depth]
            ELSE LET rest == embedInBatches_DropTail(options, documents,
                                                     i + options.BatchSize, r.requests,
                                                     failAt, allEmbeddings \o r.vectors)
                 IN [rest EXCEPT !.sent = r.sent \o @, !.depth = 1 + r.depth]

\* the loop of embedInBatches from index i on.  batch: the batch number the
\* returned error names (i / BatchSize).  documents[i:end] panics for end < i,
\* and so does i / BatchSize for a batch size of 0.
embedInBatches(options, documents, i, reqNo, failAt, allEmbeddings) ==
    IF i >= Len(documents)
    THEN [err |-> "nil", batch |-> NoBatch, vectors |-> allEmbeddings, requests |-> reqNo,
          sent |-> <<>>, depth |-> 1]
    ELSE LET end == IF i + options.BatchSize > Len(documents) THEN Len(documents)
                    ELSE i + options.BatchSize
         IN IF end < i THEN Panic(SliceBounds, reqNo)
            ELSE LET r == EmbedDocuments(options, SubSeq(documents, i + 1, end), reqNo,
                                         failAt)
                 IN IF r.err # "nil"
                    THEN IF options.BatchSize = 0
                         THEN [Panic(DivideByZero, r.requests) EXCEPT
                                  !.sent = r.sent, !.depth = 1 + r.depth]
                         ELSE [err |-> r.err, batch |-> i \div options.BatchSize,
                               vectors |-> <<>>, requests |-> r.requests,
                               sent |-> r.sent, depth |-> 1 + r.depth]
                    ELSE LET rest == embedInBatches(options, documents,
                                                    i + options.BatchSize, r.requests,
                                                    failAt, allEmbeddings \o r.vectors)
                         IN [rest EXCEPT !.sent = r.sent \o @, !.depth = 1 + r.depth]

\* providerOK = FALSE: the request fails or comes back without an embedding
EmbedQuery(text, providerOK) ==
    IF text = <<>> THEN [err |-> "EmptyInput", vector |-> <<>>, sent |-> <<>>]
    ELSE IF ~providerOK THEN [err |-> "APIError", vector |-> <<>>, sent |-> <<<<text>>>>]
    ELSE [err |-> "nil", vector |-> Embedding(text), sent |-> <<<<text>>>>]

(***************************************************************************)
(* Filters (vectorstore.Filter): a Go map that may be nil.                 *)
(***************************************************************************)
NilFilter == [isNil |-> TRUE, m |-> EmptyMap]
Filter(m) == [isNil |-> FALSE, m |-> m]

(***************************************************************************)
(* Rationals <<n, d>>, d > 0.                                              *)
(***************************************************************************)
RatLE(a, b) == a[1] * b[2] <= b[1] * a[2]
RatLT(a, b) == a[1] * b[2] < b[1] * a[2]

(***************************************************************************)
(* The pgvector store (PGVectorStore).                                     *)
(***************************************************************************)
RECURSIVE Dot(_, _, _)
Dot(a, b, i) == IF i > Len(a) THEN 0 ELSE a[i] * b[i] + Dot(a, b, i + 1)

Diff(a, b) == [i \in 1..Len(a) |-> a[i] - b[i]]

\* the integer square root; exact on the vectors of the model
ISqrt(n) == CHOOSE r \in 0..n : r * r <= n /\ n < (r + 1) * (r + 1)

\* the value of pgvector's distance operator for the configured metric
OperatorValue(metric, a, b) ==
    IF metric = "euclidean" THEN <<ISqrt(Dot(Diff(a, b), Diff(a, b), 1)), 1>>
    ELSE IF metric = "inner_product" THEN <<0 - Dot(a, b, 1), 1>>
    ELSE LET norms == ISqrt(Dot(a, a, 1)) * ISqrt(Dot(b, b, 1))
         IN <<norms - Dot(a, b, 1), norms>>

\* mutant: the negative inner product is returned as it is
buildScoreExpression_NoNegation(metric, d) ==
    IF metric = "cosine" THEN <<d[2] - d[1], d[2]>>
    ELSE IF metric = "inner_product" THEN <<d[1], d[2]>>
    ELSE IF metric = "euclidean" THEN <<d[2], d[2] + d[1]>>
    ELSE <<d[2] - d[1], d[2]>>

\* the similarity column computed from the operator's value d
buildScoreExpression(metric, d) ==
    IF metric = "cosine" THEN <<d[2] - d[1], d[2]>>
    ELSE IF metric = "inner_product" THEN <<0 - d[1], d[2]>>
    ELSE IF metric = "euclidean" THEN <<d[2], d[2] + d[1]>>
    ELSE <<d[2] - d[1], d[2]>>

validateFilter(filter) ==
    IF filter.isNil THEN "nil"
    ELSE IF \E k \in DOMAIN filter.m : k = "" THEN "empty key in filter"
    ELSE IF \E k \in DOMAIN filter.m : filter.m[k].kind = "nil" THEN "nil value"
    ELSE "nil"

\* the conjuncts of the WHERE clause: <<key, argument>> for metadata->>'key' = $n
buildWhereClause(filter) == {<<k, filter.m[k]>> : k \in DOMAIN filter.m}

buildDeleteWhereClause(filter) == {<<k, filter.m[k]>> : k \in DOMAIN filter.m}

\* the text pgx sends for a query argument (the model's filter values are strings)
ParamText(x) == x.v

\* a row satisfies the WHERE clause
Where(row, clause) ==
    \A c \in clause : SQLTextEq(JSONText(row.metadata, c[1]), ParamText(c[2]))

\* the rows INSERTed for docs, which are paired with vectors by position
InsertRows(docs, vectors) ==
    [i \in 1..Len(docs) |-> [content |-> docs[i].PageContent,
                             metadata |-> MarshalMetadata(docs[i].Metadata),
                             embedding |-> vectors[i]]]

\* the position of the first vector whose length is not dim (0: there is none)
FirstBadVector(vectors, dim) ==
    IF \E i \in 1..Len(vectors) : Len(vectors[i]) # dim
    THEN CHOOSE i \in 1..Len(vectors) :
            /\ Len(vectors[i]) # dim
            /\ \A j \in 1..(i - 1) : Len(vectors[j]) = dim
    ELSE 0

\* mutant: each vector is validated right before its own document is inserted
PG_AddDocuments_PartialWrite(rows, dim, docs, vectors, dbOK) ==
    LET bad == FirstBadVector(vectors, dim)
        n == IF bad - 1 < Len(docs) THEN bad - 1 ELSE Len(docs)
    IN IF bad # 0
       THEN [err |-> "INVALID_DIMENSIONS",
             rows |-> rows \o InsertRows(SubSeq(docs, 1, n), vectors),
             expected |-> dim, got |-> Len(vectors[bad])]
       ELSE IF ~dbOK
       THEN [err |-> "ADD_FAILED", rows |-> rows, expected |-> dim, got |-> dim]
       ELSE [err |-> "nil", rows |-> rows \o InsertRows(docs, vectors),
             expected |-> dim, got |-> dim]

\* expected / got: the two lengths NewInvalidDimensionsError puts in its message
PG_AddDocuments(rows, dim, docs, vectors, dbOK) ==
    LET bad == FirstBadVector(vectors, dim)
    IN IF bad # 0
       THEN [err |-> "INVALID_DIMENSIONS", rows |-> rows,
             expected |-> dim, got |-> Len(vectors[bad])]
       ELSE IF ~dbOK
       THEN [err |-> "ADD_FAILED", rows |-> rows, expected |-> dim, got |-> dim]
       ELSE [err |-> "nil", rows |-> rows \o InsertRows(docs, vectors),
             expected |-> dim, got |-> dim]

PG_Delete(rows, filter, dbOK) ==
    IF ~dbOK THEN [err |-> "DELETE_FAILED", rows |-> rows]
    ELSE [err |-> "nil",
          rows |-> SelectSeq(rows, LAMBDA r : ~Where(r, buildDeleteWhereClause(filter)))]

PG_DocumentExists(rows, docs, dbOK) ==
    IF ~dbOK THEN [err |-> "SEARCH_FAILED", exists |-> <<>>]
    ELSE [err |-> "nil",
          exists |-> [i \in 1..Len(docs) |->
              LET source == AssertString(Get(docs[i].Metadata, "source"))
                  lastMod == AssertString(Get(docs[i].Metadata, "last_modified"))
              IN \E j \in 1..Len(rows) :
                    /\ SQLTextEq(JSONText(rows[j].metadata, "source"), source)
                    /\ SQLTextEq(JSONText(rows[j].metadata, "last_modified"), lastMod)]]

\* mutant: the rows are returned in descending order of the operator's value
OrderBy_Descending(rows, idx, metric, vector) ==
    {p \in [1..Cardinality(idx) -> idx] :
        /\ \A i, j \in 1..Cardinality(idx) : i # j => p[i] # p[j]
        /\ \A i \in 1..(Cardinality(idx) - 1) :
              RatLE(OperatorValue(metric, rows[p[i + 1]].embedding, vector),
                    OperatorValue(metric, rows[p[i]].embedding, vector))}

\* the orders in which ORDER BY embedding <op> $1 may return the rows idx:
\* ascending in the operator's value, ties in any order
OrderBy(rows, idx, metric, vector) ==
    {p \in [1..Cardinality(idx) -> idx] :
        /\ \A i, j \in 1..Cardinality(idx) : i # j => p[i] # p[j]
        /\ \A i \in 1..(Cardinality(idx) - 1) :
              RatLE(OperatorValue(metric, rows[p[i]].embedding, vector),
                    OperatorValue(metric, rows[p[i + 1]].embedding, vector))}

\* LIMIT n of an ordered result
Limit(p, n) == SubSeq(p, 1, IF n < Len(p) THEN n ELSE Len(p))

\* every result PGVectorStore.SimilaritySearch may return
PG_SimilaritySearch(rows, dim, metric, vector, limit, filter, dbOK) ==
    IF Len(vector) # dim
    THEN {[err |-> "INVALID_DIMENSIONS", docs |-> <<>>]}
    ELSE IF validateFilter(filter) # "nil"
    THEN {[err |-> "INVALID_FILTER", docs |-> <<>>]}
    ELSE IF ~dbOK \/ limit < 0
    THEN {[err |-> "SEARCH_FAILED", docs |-> <<>>]}
    ELSE LET idx == {i \in 1..Len(rows) : Where(rows[i], buildWhereClause(filter))}
         IN {[err |-> "nil",
              docs |-> [i \in 1..Len(Limit(p, limit)) |->
                  [PageContent |-> rows[p[i]].content,
                   Metadata |-> rows[p[i]].metadata,
                   Score |-> buildScoreExpression(metric,
                       OperatorValue(metric, rows[p[i]].embedding, vector))]]]
             : p \in OrderBy(rows, idx, metric, vector)}

(***************************************************************************)
(* PGVectorStore.InitDB: the extension, the table and its three indexes.   *)
(***************************************************************************)
\* the index operator class getOperatorAndFunction returns for a metric
getOperatorAndFunction(metric) ==
    IF metric = "euclidean" THEN "vector_l2_ops"
    ELSE IF metric = "inner_product" THEN "vector_ip_ops"
    ELSE "vector_cosine_ops"

\* a database in which InitDB has never run
NoSchema == [extension |-> FALSE, table |-> FALSE, dim |-> 0, vectorIndex |-> "none",
             indexes |-> {}]

\* the statements InitDB executes, in order
Statements(forceRecreate) ==
    <<"CREATE EXTENSION">> \o (IF forceRecreate THEN <<"DROP TABLE">> ELSE <<>>)
    \o <<"CREATE TABLE", "CREATE INDEX embedding", "CREATE INDEX source_lastmod",
         "CREATE INDEX gin">>

\* the database [schema, rows] after one statement; every CREATE is IF NOT EXISTS and
\* DROP TABLE takes the rows and the indexes of the table with it
Exec(db, stmt, dim, metric) ==
    IF stmt = "CREATE EXTENSION" THEN [db EXCEPT !.schema.extension = TRUE]
    ELSE IF stmt = "DROP TABLE"
    THEN [schema |-> [NoSchema EXCEPT !.extension = db.schema.extension], rows |-> <<>>]
    ELSE IF stmt = "CREATE TABLE"
    THEN IF db.schema.table THEN db
         ELSE [db EXCEPT !.schema.table = TRUE, !.schema.dim = dim]
    ELSE IF stmt = "CREATE INDEX embedding"
    THEN IF db.schema.vectorIndex # "none" THEN db
         ELSE [db EXCEPT !.schema.vectorIndex = getOperatorAndFunction(metric)]
    ELSE IF stmt = "CREATE INDEX source_lastmod"
    THEN [db EXCEPT !.schema.indexes = @ \cup {"source_lastmod"}]
    ELSE [db EXCEPT !.schema.indexes = @ \cup {"gin"}]

\* the statements from the i-th on, each in its own implicit transaction; the
\* failAt-th fails (0: none does) and InitDB returns at once
RECURSIVE RunStatements(_, _, _, _, _, _)
RunStatements(db, stmts, i, failAt, dim, metric) ==
    IF i > Len(stmts) THEN [err |-> "nil", db |-> db]
    ELSE IF i = failAt THEN [err |-> "InitFailed", db |-> db]
    ELSE RunStatements(Exec(db, stmts[i], dim, metric), stmts, i + 1, failAt, dim, metric)

\* mutant: the existence probe is skipped
InitDB_NoProbe(db, dim, metric, forceRecreate, probeOK, failAt) ==
    RunStatements(db, Statements(forceRecreate), 1, failAt, dim, metric)

\* probeOK = FALSE: the information_schema query fails, and InitDB goes on
InitDB(db, dim, metric, forceRecreate, probeOK, failAt) ==
    IF ~forceRecreate /\ probeOK /\ db.schema.table
    THEN [err |-> "DBExists", db |-> db]
    ELSE RunStatements(db, Statements(forceRecreate), 1, failAt, dim, metric)

\* KnowledgeBase.InitStore hands the call to the store
InitStore(db, dim, metric, forceRecreate, probeOK, failAt) ==
    InitDB(db, dim, metric, forceRecreate, probeOK, failAt)

\* extension, table and the three indexes are all there
Initialised(sc) ==
    /\ sc.extension /\ sc.table
    /\ sc.vectorIndex # "none"
    /\ sc.indexes = {"source_lastmod", "gin"}

(***************************************************************************)
(* vectorstore.VectorStore: the retrieval facade.                          *)
(***************************************************************************)
FromDocument(doc) == [PageContent |-> doc.PageContent, Metadata |-> doc.Metadata]

\* mutant: the store is called although the embedding failed
VS_AddDocuments_StoreOnError(rows, dim, docs, failAt, dbOK) ==
    LET texts == [i \in 1..Len(docs) |-> docs[i].PageContent]
        vsDocs == [i \in 1..Len(docs) |-> FromDocument(docs[i])]
        e == EmbedDocuments(DefaultOptions, texts, 0, failAt)
    IN IF e.err # "nil"
       THEN [err |-> e.err, rows |-> PG_AddDocuments(rows, dim, <<>>, <<>>, dbOK).rows,
             embedCalls |-> 1, addCalls |-> 1]
       ELSE LET a == PG_AddDocuments(rows, dim, vsDocs, e.vectors, dbOK)
            IN [err |-> a.err, rows |-> a.rows, embedCalls |-> 1, addCalls |-> 1]

\* embedCalls / addCalls: the calls made to the embedder and to the store
VS_AddDocuments(rows, dim, docs, failAt, dbOK) ==
    LET texts == [i \in 1..Len(docs) |-> docs[i].PageContent]
        vsDocs == [i \in 1..Len(docs) |-> FromDocument(docs[i])]
        e == EmbedDocuments(DefaultOptions, texts, 0, failAt)
    IN IF e.err # "nil"
       THEN [err |-> e.err, rows |-> rows, embedCalls |-> 1, addCalls |-> 0]
       ELSE LET a == PG_AddDocuments(rows, dim, vsDocs, e.vectors, dbOK)
            IN [err |-> a.err, rows |-> a.rows, embedCalls |-> 1, addCalls |-> 1]

VS_DocumentExists(rows, docs, dbOK) == PG_DocumentExists(rows, docs, dbOK)

VS_Delete(rows, filter, dbOK) == PG_Delete(rows, filter, dbOK)

\* for k, v := range src { dst[k] = v }
RECURSIVE CopyInto(_, _)
CopyInto(dst, src) ==
    IF DOMAIN src = {} THEN dst
    ELSE LET k == CHOOSE x \in DOMAIN src : TRUE
         IN CopyInto(Put(dst, k, src[k]), [x \in DOMAIN src \ {k} |-> src[x]])

\* mutant: the defaults are copied last and win on a collision
MergeFilters_DefaultsWin(defaults, filter) ==
    LET m1 == IF ~filter.isNil THEN CopyInto(EmptyMap, filter.m) ELSE EmptyMap
        m2 == IF ~defaults.isNil THEN CopyInto(m1, defaults.m) ELSE m1
    IN Filter(m2)

MergeFilters(defaults, filter) ==
    LET m1 == IF ~defaults.isNil THEN CopyInto(EmptyMap, defaults.m) ELSE EmptyMap
        m2 == IF ~filter.isNil THEN CopyInto(m1, filter.m) ELSE m1
    IN Filter(m2)

\* mutant: the merge writes into the map of the default filter when there is one
MergedFilterMap_ReusesDefaults(defaults) ==
    IF defaults.isNil THEN "mergedFilter" ELSE "vs.opts.Filters"

\* mergedFilter := make(Filter): the map the two loops write to is a new one
MergedFilterMap(defaults) == "mergedFilter"

\* the default filter and the request filter as the merge leaves them: a Go map
\* is shared by reference, so the one written to, if any, holds the merged keys
FiltersAfterMerge(defaults, filter) ==
    LET written == MergedFilterMap(defaults)
    IN [defaults |-> IF written = "vs.opts.Filters" THEN MergeFilters(defaults, filter)
                     ELSE defaults,
        filter |-> IF written = "filter" THEN MergeFilters(defaults, filter) ELSE filter]

\* mutant: the comparison with the threshold is reversed
KeepsScore_Reversed(scoreThreshold, score) ==
    RatLE(scoreThreshold, <<0, 1>>) \/ RatLE(score, scoreThreshold)

\* the condition under which a store result is kept
KeepsScore(scoreThreshold, score) ==
    RatLE(scoreThreshold, <<0, 1>>) \/ RatLE(scoreThreshold, score)

RECURSIVE ApplyThreshold(_, _)
ApplyThreshold(vsDocs, scoreThreshold) ==
    IF vsDocs = <<>> THEN <<>>
    ELSE (IF KeepsScore(scoreThreshold, Head(vsDocs).Score) THEN <<Head(vsDocs)>> ELSE <<>>)
         \o ApplyThreshold(Tail(vsDocs), scoreThreshold)

\* every outcome of VectorStore.SimilaritySearch: the error, the results, the
\* filter and results of the store call it made (storeCalled: whether it made
\* one), and the default and request filters as the call leaves them
VS_SimilaritySearch(rows, dim, metric, opts, query, limit, filter, providerOK, dbOK) ==
    LET q == EmbedQuery(query, providerOK)
        mergedFilter == MergeFilters(opts.Filters, filter)
    IN IF q.err # "nil"
       THEN {[err |-> q.err, docs |-> <<>>, storeCalled |-> FALSE,
              mergedFilter |-> NilFilter, vsDocs |-> <<>>,
              filters |-> [defaults |-> opts.Filters, filter |-> filter]]}
       ELSE {[err |-> r.err,
              docs |-> IF r.err # "nil" THEN <<>>
                       ELSE ApplyThreshold(r.docs, opts.ScoreThreshold),
              storeCalled |-> TRUE, mergedFilter |-> mergedFilter, vsDocs |-> r.docs,
              filters |-> FiltersAfterMerge(opts.Filters, filter)]
             : r \in PG_SimilaritySearch(rows, dim, metric, q.vector, limit,
                                         mergedFilter, dbOK)}

(***************************************************************************)
(* kb.KnowledgeBase: one document of a Sync run.                           *)
(***************************************************************************)
documentNeedsUpdate(rows, doc, dbOK) ==
    LET checkDoc == [PageContent |-> <<>>,
                     Metadata |-> Put(Put(EmptyMap, "source", Str(doc.Source)),
                                      "last_modified", Get(doc.Metadata, "last_modified"))]
        r == VS_DocumentExists(rows, <<checkDoc>>, dbOK)
    IN IF r.err # "nil" THEN [exists |-> FALSE, err |-> r.err]
       ELSE [exists |-> r.exists[1], err |-> "nil"]

\* mutant: the error of AddDocuments is dropped
processData_DropError(rows, dim, doc, splitOK, failAt, dbOK) ==
    LET docu == [PageContent |-> doc.Content,
                 Metadata |-> Put(doc.Metadata, "source", Str(doc.Source))]
        a == VS_AddDocuments(rows, dim, SplitDocuments(CharacterSplitter, <<docu>>),
                             failAt, dbOK)
    IN IF ~splitOK
       THEN [err |-> "SplitterError", rows |-> rows, embedCalls |-> 0, addCalls |-> 0]
       ELSE [err |-> "nil", rows |-> a.rows, embedCalls |-> a.embedCalls,
             addCalls |-> a.addCalls]

\* splitOK = FALSE: the configured Splitter returns an error from SplitText
processData(rows, dim, doc, splitOK, failAt, dbOK) ==
    LET docu == [PageContent |-> doc.Content,
                 Metadata |-> Put(doc.Metadata, "source", Str(doc.Source))]
    IN IF ~splitOK
       THEN [err |-> "SplitterError", rows |-> rows, embedCalls |-> 0, addCalls |-> 0]
       ELSE VS_AddDocuments(rows, dim, SplitDocuments(CharacterSplitter, <<docu>>),
                            failAt, dbOK)

\* mutant: every received document is processed, whatever the probe says
NeedsProcessing_Always(exists) == TRUE

\* `if !exists`: whether Sync hands the received document to processData
NeedsProcessing(exists) == ~exists

\* a call Sync makes on the splitter, the embedder or the store for a document;
\* filter: the filter of a Delete, nil for the other calls
Call(op, filter) == [op |-> op, filter |-> filter]

\* the calls processData makes for a document, in order, given the calls to the
\* embedder and to the store that VectorStore.AddDocuments came to make (r)
processDataCalls(doc, splitOK, r) ==
    <<Call("SplitDocuments", NilFilter)>>
    \o (IF splitOK /\ r.embedCalls > 0 THEN <<Call("EmbedDocuments", NilFilter)>> ELSE <<>>)
    \o (IF splitOK /\ r.addCalls > 0 THEN <<Call("AddDocuments", NilFilter)>> ELSE <<>>)

\* the body of Sync's document case for one received document
SyncDocument(rows, dim, doc, probeOK, splitOK, failAt, dbOK) ==
    LET probe == documentNeedsUpdate(rows, doc, probeOK)
    IN IF probe.err # "nil"
       THEN [err |-> probe.err, rows |-> rows, embedCalls |-> 0, addCalls |-> 0,
             outcome |-> "failed", calls |-> <<Call("DocumentExists", NilFilter)>>]
       ELSE IF ~NeedsProcessing(probe.exists)
       THEN [err |-> "nil", rows |-> rows, embedCalls |-> 0, addCalls |-> 0,
             outcome |-> "skipped", calls |-> <<Call("DocumentExists", NilFilter)>>]
       ELSE LET r == processData(rows, dim, doc, splitOK, failAt, dbOK)
            IN [err |-> r.err, rows |-> r.rows, embedCalls |-> r.embedCalls,
                addCalls |-> r.addCalls,
                outcome |-> IF r.err = "nil" THEN "indexed" ELSE "failed",
                calls |-> <<Call("DocumentExists", NilFilter)>>
                          \o processDataCalls(doc, splitOK, r)]

(***************************************************************************)
(* Inputs.                                                                 *)
(***************************************************************************)
\* the documents a data source streams: two versions of x with a string
\* last_modified, one of x with a time.Time last_modified (as S3Source sets
\* it), and an empty y
SourceDocs ==
    { [Source |-> "x", Content |-> <<"a", "b", " ", "c", " ", "d">>,
       Metadata |-> Put(EmptyMap, "last_modified", Str("v1"))],
      [Source |-> "x", Content |-> <<"d">>,
       Metadata |-> Put(EmptyMap, "last_modified", Str("v2"))],
      [Source |-> "x", Content |-> <<"d">>,
       Metadata |-> Put(EmptyMap, "last_modified", Time("2024-01-01T00:00:00Z"))],
      [Source |-> "y", Content |-> <<>>,
       Metadata |-> Put(EmptyMap, "last_modified", Str("v1"))] }

NoDoc == [Source |-> "", Content |-> <<>>, Metadata |-> EmptyMap]

\* provider requests one EmbedDocuments call of the model can make
MaxRequests == 2

Metrics == {"cosine", "euclidean", "inner_product"}

Thresholds == {<<0, 1>>, <<0 - 1, 2>>, <<1, 2>>}

DefaultFilters == {NilFilter, Filter(Put(EmptyMap, "lang", Str("en")))}

RequestFilters == {NilFilter, Filter(EmptyMap), Filter(Put(EmptyMap, "source", Str("x"))),
                   Filter(Put(EmptyMap, "lang", Str("fr")))}

DocA == [PageContent |-> <<"a", "b">>,
         Metadata |-> Put(Put(EmptyMap, "source", Str("x")), "lang", Str("en"))]
DocB == [PageContent |-> <<"b", " ", "c">>,
         Metadata |-> Put(Put(EmptyMap, "source", Str("x")), "lang", Str("fr"))]
DocC == [PageContent |-> <<"d">>, Metadata |-> Put(EmptyMap, "source", Str("y"))]

\* the document lists given to VectorStore.AddDocuments
AddInputs == {<<>>, <<DocA>>, <<DocC>>, <<DocA, DocB, DocC>>}

Queries == {<<>>, <<"c">>}

NoSearch == [done |-> FALSE, query |-> <<>>, limit |-> 0, filter |-> NilFilter,
             err |-> "nil", docs |-> <<>>, storeCalled |-> FALSE,
             mergedFilter |-> NilFilter, vsDocs |-> <<>>, filterAfter |-> NilFilter]

(***************************************************************************)
(* chathistory.Memory over inmemory.InMemoryRepository.  One conversation  *)
(* id is in use, so ListConversations' sort by UpdatedAt is the identity   *)
(* and the time stamps are left out.  A message is told by its role; of a  *)
(* chathistory.Filter only Roles is set.                                   *)
(***************************************************************************)
MaxMessages == 1    \* Options.MaxMessages, as set by WithMaxMessages

ReturnLimit == 20

Callers == {"g1", "g2"}

ConvIDs == {"k"}

NoConv == [ID |-> "", Messages |-> <<>>, Metadata |-> Nil]

IsEmpty(filter) == Len(filter.Roles) = 0

messageMatchesFilter(msg, filter) ==
    Len(filter.Roles) > 0 => \E i \in 1..Len(filter.Roles) : msg.Role = filter.Roles[i]

\* the messages of msgs that match (keep) or do not match (~keep) the filter
RECURSIVE FilterMessages(_, _, _)
FilterMessages(msgs, filter, keep) ==
    IF msgs = <<>> THEN <<>>
    ELSE IF messageMatchesFilter(Head(msgs), filter) = keep
    THEN <<Head(msgs)>> \o FilterMessages(Tail(msgs), filter, keep)
    ELSE FilterMessages(Tail(msgs), filter, keep)

\* the last `limit` messages; all of them for limit <= 0 or beyond the length
LastMessages(msgs, limit) ==
    LET l == IF limit <= 0 \/ limit > Len(msgs) THEN Len(msgs) ELSE limit
        start == IF Len(msgs) - l < 0 THEN 0 ELSE Len(msgs) - l
    IN SubSeq(msgs, start + 1, Len(msgs))

\* what a repository method computes between taking and releasing the lock: the
\* error and value it returns and the write it makes to r.conversations
NotFound(id) == [err |-> "conversation not found", ret |-> Nil, write |-> "none",
                 id |-> id, conv |-> NoConv]

Reads(id, ret) == [err |-> "nil", ret |-> ret, write |-> "none", id |-> id,
                   conv |-> NoConv]

Puts(id, conv) == [err |-> "nil", ret |-> Nil, write |-> "put", id |-> id, conv |-> conv]

AddMessage(convs, conversationID, message) ==
    IF conversationID \notin DOMAIN convs THEN NotFound(conversationID)
    ELSE Puts(conversationID,
              [convs[conversationID] EXCEPT !.Messages = Append(@, message)])

GetMessages(convs, conversationID, limit) ==
    IF conversationID \notin DOMAIN convs THEN NotFound(conversationID)
    ELSE Reads(conversationID, LastMessages(convs[conversationID].Messages, limit))

GetMessagesByFilter(convs, conversationID, filter, limit) ==
    IF conversationID \notin DOMAIN convs THEN NotFound(conversationID)
    ELSE Reads(conversationID,
               LastMessages(FilterMessages(convs[conversationID].Messages, filter, TRUE),
                            limit))

DeleteMessages(convs, conversationID, filter) ==
    IF conversationID \notin DOMAIN convs THEN NotFound(conversationID)
    ELSE Puts(conversationID,
              [convs[conversationID] EXCEPT
                  !.Messages = FilterMessages(@, filter, FALSE)])

ClearHistory(convs, conversationID) ==
    IF conversationID \notin DOMAIN convs THEN NotFound(conversationID)
    ELSE Puts(conversationID, [convs[conversationID] EXCEPT !.Messages = <<>>])

DeleteConversation(convs, conversationID) ==
    IF conversationID \notin DOMAIN convs THEN NotFound(conversationID)
    ELSE [err |-> "nil", ret |-> Nil, write |-> "delete", id |-> conversationID,
          conv |-> NoConv]

CreateConversation(convs, conv) ==
    IF conv.ID \in DOMAIN convs
    THEN [err |-> "conversation already exists", ret |-> Nil, write |-> "none",
          id |-> conv.ID, conv |-> NoConv]
    ELSE Puts(conv.ID, conv)

GetConversation(convs, conversationID) ==
    IF conversationID \notin DOMAIN convs THEN NotFound(conversationID)
    ELSE Reads(conversationID, convs[conversationID])

\* every conversation matches a filter with no field set
ListConversations(convs, limit, offset) ==
    LET all == IF \E id \in ConvIDs : id \in DOMAIN convs
               THEN <<convs[CHOOSE id \in ConvIDs : id \in DOMAIN convs]>> ELSE <<>>
        end == IF offset + limit > Len(all) THEN Len(all) ELSE offset + limit
    IN IF offset >= Len(all) THEN Reads("", <<>>)
       ELSE Reads("", SubSeq(all, offset + 1, end))

UpdateConversationMetadata(convs, conversationID, metadata) ==
    IF conversationID \notin DOMAIN convs THEN NotFound(conversationID)
    ELSE Puts(conversationID, [convs[conversationID] EXCEPT !.Metadata = metadata])

GetMessageCount(convs, conversationID, filter) ==
    IF conversationID \notin DOMAIN convs THEN NotFound(conversationID)
    ELSE IF IsEmpty(filter) THEN Reads(conversationID, Len(convs[conversationID].Messages))
    ELSE Reads(conversationID,
               Len(FilterMessages(convs[conversationID].Messages, filter, TRUE)))

WriteOps == {"CreateConversation", "AddMessage", "DeleteMessages", "ClearHistory",
             "DeleteConversation", "UpdateConversationMetadata"}

ReadOps == {"GetMessages", "GetMessagesByFilter", "GetConversation", "ListConversations",
            "GetMessageCount"}

\* mutant: every method takes the read lock
LockKind_AllRead(op) == "RLock"

\* r.mu.Lock() or r.mu.RLock() at the head of the method
LockKind(op) == IF op \in WriteOps THEN "Lock" ELSE "RLock"

\* the method's body on the map as the caller finds it
Body(c, convs) ==
    IF c.op = "CreateConversation" THEN CreateConversation(convs, c.arg)
    ELSE IF c.op = "AddMessage" THEN AddMessage(convs, c.id, c.arg)
    ELSE IF c.op = "GetMessages" THEN GetMessages(convs, c.id, c.arg)
    ELSE IF c.op = "GetMessagesByFilter"
    THEN GetMessagesByFilter(convs, c.id, c.arg, ReturnLimit)
    ELSE IF c.op = "DeleteMessages" THEN DeleteMessages(convs, c.id, c.arg)
    ELSE IF c.op = "ClearHistory" THEN ClearHistory(convs, c.id)
    ELSE IF c.op = "DeleteConversation" THEN DeleteConversation(convs, c.id)
    ELSE IF c.op = "GetConversation" THEN GetConversation(convs, c.id)
    ELSE IF c.op = "ListConversations"
    THEN ListConversations(convs, c.arg.limit, c.arg.offset)
    ELSE IF c.op = "UpdateConversationMetadata"
    THEN UpdateConversationMetadata(convs, c.id, c.arg)
    ELSE GetMessageCount(convs, c.id, c.arg)

\* r.conversations[id] = conv, or delete(r.conversations, id)
WriteBack(convs, out) ==
    IF out.write = "put" THEN Put(convs, out.id, out.conv)
    ELSE IF out.write = "delete"
    THEN [x \in DOMAIN convs \ {out.id} |-> convs[x]]
    ELSE convs

Unlocked == [writer |-> "none", readers |-> {}]

IdleCaller == [pc |-> "idle"]

(***************************************************************************)
(* The Sync engine: kb.KnowledgeBase.Sync consuming datasource.Stream.     *)
(***************************************************************************)
\* no call of the component is in progress
Idle == [op |-> "none"]

\* the database is set up for the store and no InitDB call is in progress
ExtIdle ==
    /\ schema = [extension |-> TRUE, table |-> TRUE, dim |-> EmbedDim,
                 vectorIndex |-> getOperatorAndFunction("cosine"),
                 indexes |-> {"source_lastmod", "gin"}]
    /\ initOut = Idle
    /\ scoreOut = Idle
    /\ conversations = EmptyMap
    /\ mu = Unlocked
    /\ callers = [p \in Callers |-> IdleCaller]

UnitIdle == addOut = Idle /\ embedOut = Idle /\ split = Idle /\ heap = Idle /\ ExtIdle

Init ==
    /\ UnitIdle
    /\ store = <<>>
    /\ dimension = EmbedDim
    /\ distance = "cosine"
    /\ threshold = <<0, 1>>
    /\ defaultFilter = NilFilter
    /\ searchOut = NoSearch
    /\ pc = "idle"
    /\ result = "none"
    /\ outcome = [kind |-> "none", doc |-> NoDoc, calls |-> <<>>]
    /\ docChan = <<>>
    /\ docClosed = FALSE
    /\ errChan = <<>>
    /\ errClosed = FALSE
    /\ sent = 0
    /\ cancelled = FALSE
    /\ embedCalls = 0
    /\ addCalls = 0

\* Sync is called: ds.Stream(ctx) hands out a fresh pair of channels
StartSync ==
    /\ pc \in {"idle", "returned"}
    /\ pc' = "select"
    /\ result' = "none"
    /\ outcome' = [kind |-> "none", doc |-> NoDoc, calls |-> <<>>]
    /\ docChan' = <<>>
    /\ docClosed' = FALSE
    /\ errChan' = <<>>
    /\ errClosed' = FALSE
    /\ cancelled' = FALSE
    /\ UNCHANGED <<unitVars, storeVars, searchOut, sent, embedCalls, addCalls>>

\* the data source sends a document
ProducerSend ==
    /\ pc # "idle"
    /\ ~docClosed
    /\ Len(docChan) < ChanCap
    /\ sent < MaxDocs
    /\ \E d \in SourceDocs : docChan' = Append(docChan, d)
    /\ sent' = sent + 1
    /\ UNCHANGED <<unitVars, storeVars, searchOut, pc, result, outcome, docClosed, errChan,
                   errClosed, cancelled, embedCalls, addCalls>>

\* the data source closes the document channel
ProducerClose ==
    /\ pc # "idle"
    /\ ~docClosed
    /\ docClosed' = TRUE
    /\ UNCHANGED <<unitVars, storeVars, searchOut, pc, result, outcome, docChan, errChan,
                   errClosed, sent, cancelled, embedCalls, addCalls>>

\* the data source reports an error
ProducerError ==
    /\ pc # "idle"
    /\ ~errClosed
    /\ Len(errChan) < ChanCap
    /\ errChan' = Append(errChan, "DataSourceError")
    /\ UNCHANGED <<unitVars, storeVars, searchOut, pc, result, outcome, docChan, docClosed,
                   errClosed, sent, cancelled, embedCalls, addCalls>>

\* the data source closes the error channel
ProducerCloseErr ==
    /\ pc # "idle"
    /\ ~errClosed
    /\ errClosed' = TRUE
    /\ UNCHANGED <<unitVars, storeVars, searchOut, pc, result, outcome, docChan, docClosed,
                   errChan, sent, cancelled, embedCalls, addCalls>>

\* the caller cancels the context it gave to Sync
Cancel ==
    /\ pc = "select"
    /\ ~cancelled
    /\ cancelled' = TRUE
    /\ UNCHANGED <<unitVars, storeVars, searchOut, pc, result, outcome, docChan, docClosed,
                   errChan, errClosed, sent, embedCalls, addCalls>>

\* case doc, ok := <-docChan with ok: the document is probed and processed
SyncRecvDoc ==
    /\ pc = "select"
    /\ docChan # <<>>
    /\ \E probeOK \in BOOLEAN, splitOK \in BOOLEAN, dbOK \in BOOLEAN,
          failAt \in 0..MaxRequests :
          LET r == SyncDocument(store, dimension, Head(docChan), probeOK, splitOK,
                                failAt, dbOK)
          IN /\ store' = r.rows
             /\ embedCalls' = embedCalls + r.embedCalls
             /\ addCalls' = addCalls + r.addCalls
             /\ outcome' = [kind |-> r.outcome, doc |-> Head(docChan), calls |-> r.calls]
             /\ pc' = IF r.err # "nil" THEN "returned" ELSE "select"
             /\ result' = IF r.err # "nil" THEN r.err ELSE result
    /\ docChan' = Tail(docChan)
    /\ UNCHANGED <<unitVars, dimension, distance, threshold, defaultFilter, searchOut,
                   docClosed, errChan, errClosed, sent, cancelled>>

\* mutant: the closed document channel is ignored and the loop goes on
SyncDocClosed_Continue ==
    /\ pc = "select"
    /\ docChan = <<>>
    /\ docClosed
    /\ UNCHANGED vars

\* case doc, ok := <-docChan with !ok: return nil
SyncDocClosed ==
    /\ pc = "select"
    /\ docChan = <<>>
    /\ docClosed
    /\ pc' = "returned"
    /\ result' = "nil"
    /\ UNCHANGED <<unitVars, storeVars, searchOut, outcome, docChan, docClosed, errChan,
                   errClosed, sent, cancelled, embedCalls, addCalls>>

\* case err := <-errChan with an error pending: return err
SyncRecvErr ==
    /\ pc = "select"
    /\ errChan # <<>>
    /\ pc' = "returned"
    /\ result' = Head(errChan)
    /\ errChan' = Tail(errChan)
    /\ UNCHANGED <<unitVars, storeVars, searchOut, outcome, docChan, docClosed, errClosed,
                   sent, cancelled, embedCalls, addCalls>>

\* case err := <-errChan on a closed channel: the zero value, nil, is returned
SyncErrClosed ==
    /\ pc = "select"
    /\ errChan = <<>>
    /\ errClosed
    /\ pc' = "returned"
    /\ result' = "nil"
    /\ UNCHANGED <<unitVars, storeVars, searchOut, outcome, docChan, docClosed, errChan,
                   errClosed, sent, cancelled, embedCalls, addCalls>>

SyncNext == SyncRecvDoc \/ SyncDocClosed \/ SyncRecvErr \/ SyncErrClosed

Next ==
    \/ StartSync
    \/ ProducerSend
    \/ ProducerClose
    \/ ProducerError
    \/ ProducerCloseErr
    \/ Cancel
    \/ SyncRecvDoc
    \/ SyncDocClosed
    \/ SyncRecvErr
    \/ SyncErrClosed

Spec == Init /\ [][Next]_vars

\* the Sync goroutine takes a ready case of its select
LiveSpec == Init /\ [][Next]_vars /\ WF_vars(SyncNext)

(***************************************************************************)
(* The retrieval facade used directly: add, delete, search.                *)
(***************************************************************************)
SearchInit ==
    /\ UnitIdle
    /\ store = <<>>
    /\ dimension = EmbedDim
    /\ distance \in Metrics
    /\ threshold \in Thresholds
    /\ defaultFilter \in DefaultFilters
    /\ searchOut = NoSearch
    /\ pc = "idle"
    /\ result = "none"
    /\ outcome = [kind |-> "none", doc |-> NoDoc, calls |-> <<>>]
    /\ docChan = <<>>
    /\ docClosed = FALSE
    /\ errChan = <<>>
    /\ errClosed = FALSE
    /\ sent = 0
    /\ cancelled = FALSE
    /\ embedCalls = 0
    /\ addCalls = 0

\* VectorStore.AddDocuments(ctx, docs)
FacadeAdd ==
    /\ ~searchOut.done
    /\ \E docs \in AddInputs, failAt \in 0..MaxRequests, dbOK \in BOOLEAN :
          /\ Len(store) + Len(docs) <= MaxRows
          /\ store' = VS_AddDocuments(store, dimension, docs, failAt, dbOK).rows
    /\ UNCHANGED <<unitVars, dimension, distance, threshold, defaultFilter, searchOut, syncVars>>

\* VectorStore.Delete(ctx, filter)
FacadeDelete ==
    /\ ~searchOut.done
    /\ \E filter \in RequestFilters, dbOK \in BOOLEAN :
          store' = VS_Delete(store, filter, dbOK).rows
    /\ UNCHANGED <<unitVars, dimension, distance, threshold, defaultFilter, searchOut, syncVars>>

\* VectorStore.SimilaritySearch(ctx, query, limit, filter)
FacadeSearch ==
    /\ ~searchOut.done
    /\ \E query \in Queries, limit \in (0 - 1)..MaxLimit, filter \in RequestFilters,
          fault \in {"none", "provider", "db"} :
          \E r \in VS_SimilaritySearch(store, dimension, distance,
                                       [ScoreThreshold |-> threshold,
                                        Filters |-> defaultFilter],
                                       query, limit, filter,
                                       fault # "provider", fault # "db") :
             /\ searchOut' = [done |-> TRUE, query |-> query, limit |-> limit,
                              filter |-> filter, err |-> r.err, docs |-> r.docs,
                              storeCalled |-> r.storeCalled,
                              mergedFilter |-> r.mergedFilter, vsDocs |-> r.vsDocs,
                              filterAfter |-> r.filters.filter]
             /\ defaultFilter' = r.filters.defaults
    /\ UNCHANGED <<unitVars, store, dimension, distance, threshold, syncVars>>

\* the caller takes the results of its search; it makes one facade call at a time
FacadeReturn ==
    /\ searchOut.done
    /\ searchOut' = NoSearch
    /\ UNCHANGED <<unitVars, storeVars, syncVars>>

SearchNext == FacadeAdd \/ FacadeDelete \/ FacadeSearch \/ FacadeReturn

SearchSpec == SearchInit /\ [][SearchNext]_vars

(***************************************************************************)
(* The pgvector store called directly: PGVectorStore.AddDocuments.         *)
(***************************************************************************)
\* documents of one AddDocuments call
MaxBatch == 2

\* the vector of n components, all 1
Ones(n) == [i \in 1..n |-> 1]

\* vectors one component short of EmbedDim, of EmbedDim and one beyond it
VectorInputs == {Ones(n) : n \in (EmbedDim - 1)..(EmbedDim + 1)}

\* (docs, vectors) with a vector for every document, and possibly one more
StoreAddInputs ==
    {c \in [docs : UNION {[1..n -> {DocA, DocC}] : n \in 0..MaxBatch},
            vectors : UNION {[1..n -> VectorInputs] : n \in 0..MaxBatch}] :
        Len(c.vectors) \in {Len(c.docs), Len(c.docs) + 1}}

StoreInit ==
    /\ UnitIdle
    /\ store = <<>>
    /\ dimension \in {EmbedDim, EmbedDim + 1}
    /\ distance = "cosine"
    /\ threshold = <<0, 1>>
    /\ defaultFilter = NilFilter
    /\ searchOut = NoSearch
    /\ pc = "idle"
    /\ result = "none"
    /\ outcome = [kind |-> "none", doc |-> NoDoc, calls |-> <<>>]
    /\ docChan = <<>>
    /\ docClosed = FALSE
    /\ errChan = <<>>
    /\ errClosed = FALSE
    /\ sent = 0
    /\ cancelled = FALSE
    /\ embedCalls = 0
    /\ addCalls = 0

\* PGVectorStore.AddDocuments(ctx, docs, vectors)
StoreAdd ==
    /\ addOut = Idle
    /\ \E c \in StoreAddInputs, dbOK \in BOOLEAN :
          LET r == PG_AddDocuments(store, dimension, c.docs, c.vectors, dbOK)
          IN /\ Len(r.rows) <= MaxRows
             /\ store' = r.rows
             /\ addOut' = [op |-> "AddDocuments", docs |-> c.docs,
                           vectors |-> c.vectors, err |-> r.err,
                           expected |-> r.expected, got |-> r.got]
    /\ UNCHANGED <<dimension, distance, threshold, defaultFilter, searchOut, syncVars,
                   extVars, embedOut, split, heap>>

\* the caller takes the result; it makes one call at a time
StoreReturn ==
    /\ addOut # Idle
    /\ addOut' = Idle
    /\ UNCHANGED <<storeVars, searchOut, syncVars, extVars, embedOut, split, heap>>

StoreNext == StoreAdd \/ StoreReturn

StoreSpec == StoreInit /\ [][StoreNext]_vars

(***************************************************************************)
(* The similarity column on its own: the score of two operator values.     *)
(***************************************************************************)
MaxDistance == 2    \* largest operator value, and largest denominator

\* the values the metric's operator can take: <=> in [0, 2], <-> at least 0, <#> any
RawDistances(metric) ==
    {d \in ((0 - MaxDistance * MaxDistance)..(MaxDistance * MaxDistance))
           \X (1..MaxDistance) :
        /\ RatLE(<<0 - MaxDistance, 1>>, d) /\ RatLE(d, <<MaxDistance, 1>>)
        /\ metric \in {"cosine", "euclidean"} => d[1] >= 0}

ScoreInit == StoreInit /\ dimension = EmbedDim

\* SimilaritySearch selects the score expression for two rows at the operator
\* values d1 and d2
ScoreRows ==
    /\ scoreOut = Idle
    /\ \E metric \in Metrics :
          \E d1 \in RawDistances(metric), d2 \in RawDistances(metric) :
              /\ distance' = metric
              /\ scoreOut' = [op |-> "score", d1 |-> d1, d2 |-> d2,
                              s1 |-> buildScoreExpression(metric, d1),
                              s2 |-> buildScoreExpression(metric, d2)]
    /\ UNCHANGED <<store, dimension, threshold, defaultFilter, searchOut, syncVars,
                   schema, initOut, chatVars, addOut, embedOut, split, heap>>

ScoreReturn ==
    /\ scoreOut # Idle
    /\ scoreOut' = Idle
    /\ UNCHANGED <<storeVars, searchOut, syncVars, schema, initOut, chatVars, addOut,
                   embedOut, split, heap>>

ScoreNext == ScoreRows \/ ScoreReturn

ScoreSpec == ScoreInit /\ [][ScoreNext]_vars

(***************************************************************************)
(* The store's schema on its own: InitDB on a fresh, a partly set up and a *)
(* populated database, from stores opened with different options.         *)
(***************************************************************************)
InitInit ==
    /\ addOut = Idle /\ embedOut = Idle /\ split = Idle /\ heap = Idle
    /\ schema = NoSchema
    /\ initOut = Idle
    /\ scoreOut = Idle
    /\ conversations = EmptyMap
    /\ mu = Unlocked
    /\ callers = [p \in Callers |-> IdleCaller]
    /\ store = <<>>
    /\ dimension = EmbedDim
    /\ distance = "cosine"
    /\ threshold = <<0, 1>>
    /\ defaultFilter = NilFilter
    /\ searchOut = NoSearch
    /\ pc = "idle"
    /\ result = "none"
    /\ outcome = [kind |-> "none", doc |-> NoDoc, calls |-> <<>>]
    /\ docChan = <<>>
    /\ docClosed = FALSE
    /\ errChan = <<>>
    /\ errClosed = FALSE
    /\ sent = 0
    /\ cancelled = FALSE
    /\ embedCalls = 0
    /\ addCalls = 0

\* KnowledgeBase.InitStore(ctx, forceRecreate) -> PGVectorStore.InitDB
InitDBCall ==
    /\ initOut = Idle
    /\ \E forceRecreate \in BOOLEAN, probeOK \in BOOLEAN,
          failAt \in 0..Len(Statements(TRUE)) :
          LET r == InitStore([schema |-> schema, rows |-> store], dimension, distance,
                             forceRecreate, probeOK, failAt)
          IN /\ schema' = r.db.schema
             /\ store' = r.db.rows
             /\ initOut' = [op |-> "InitDB", forceRecreate |-> forceRecreate,
                            probeOK |-> probeOK, failAt |-> failAt, err |-> r.err,
                            before |-> [schema |-> schema, rows |-> store]]
    /\ UNCHANGED <<dimension, distance, threshold, defaultFilter, searchOut, syncVars,
                   scoreOut, chatVars, addOut, embedOut, split, heap>>

\* PGVectorStore.AddDocuments between two InitDB calls; the INSERT fails without
\* the table and for vectors that are not of the table's dimension
InitAdd ==
    /\ initOut = Idle
    /\ \E c \in StoreAddInputs :
          LET r == PG_AddDocuments(store, dimension, c.docs, c.vectors,
                                   schema.table /\ schema.dim = dimension)
          IN /\ r.rows # store
             /\ Len(r.rows) <= MaxRows
             /\ store' = r.rows
    /\ UNCHANGED <<dimension, distance, threshold, defaultFilter, searchOut, syncVars,
                   extVars, addOut, embedOut, split, heap>>

\* NewPGVectorStore on the same database with other options
InitReopen ==
    /\ initOut = Idle
    /\ \E dim \in {EmbedDim, EmbedDim + 1}, metric \in Metrics :
          /\ <<dim, metric>> # <<dimension, distance>>
          /\ dimension' = dim
          /\ distance' = metric
    /\ UNCHANGED <<store, threshold, defaultFilter, searchOut, syncVars, extVars,
                   addOut, embedOut, split, heap>>

\* the caller takes the result of InitDB
InitReturn ==
    /\ initOut # Idle
    /\ initOut' = Idle
    /\ UNCHANGED <<storeVars, searchOut, syncVars, schema, scoreOut, chatVars, addOut,
                   embedOut, split, heap>>

InitNext == InitDBCall \/ InitAdd \/ InitReopen \/ InitReturn

InitSpec == InitInit /\ [][InitNext]_vars

(***************************************************************************)
(* The chat history under concurrent callers.  A call takes the lock,      *)
(* looks the conversation up and computes, writes the map if it is a       *)
(* write, and releases the lock as it returns.                             *)
(***************************************************************************)
ChatFilters == {[Roles |-> <<>>], [Roles |-> <<"user">>]}

ChatMessages == {[Role |-> "user"], [Role |-> "assistant"]}

\* the calls made through chathistory.Memory (DeleteMessages: on the repository);
\* Memory.GetMessages replaces a limit <= 0 by opts.ReturnLimit
ChatCalls ==
    {[op |-> "CreateConversation", id |-> id,
      arg |-> [ID |-> id, Messages |-> <<>>, Metadata |-> Str("chat")]] : id \in ConvIDs}
    \cup {[op |-> "AddMessage", id |-> id, arg |-> m] : id \in ConvIDs, m \in ChatMessages}
    \cup {[op |-> "GetMessages", id |-> id, arg |-> IF l <= 0 THEN ReturnLimit ELSE l] :
             id \in ConvIDs, l \in {0, 1}}
    \cup {[op |-> o, id |-> id, arg |-> f] :
             o \in {"GetMessagesByFilter", "DeleteMessages", "GetMessageCount"},
             id \in ConvIDs, f \in ChatFilters}
    \cup {[op |-> o, id |-> id, arg |-> Nil] :
             o \in {"ClearHistory", "DeleteConversation", "GetConversation"},
             id \in ConvIDs}
    \cup {[op |-> "ListConversations", id |-> "", arg |-> [limit |-> l, offset |-> o]] :
             l \in {0, 1}, o \in {0, 1}}
    \cup {[op |-> "UpdateConversationMetadata", id |-> id, arg |-> Str("topic")] :
             id \in ConvIDs}

ChatInit ==
    /\ addOut = Idle /\ embedOut = Idle /\ split = Idle /\ heap = Idle
    /\ schema = NoSchema
    /\ initOut = Idle
    /\ scoreOut = Idle
    /\ conversations = EmptyMap
    /\ mu = Unlocked
    /\ callers = [p \in Callers |-> IdleCaller]
    /\ store = <<>>
    /\ dimension = EmbedDim
    /\ distance = "cosine"
    /\ threshold = <<0, 1>>
    /\ defaultFilter = NilFilter
    /\ searchOut = NoSearch
    /\ pc = "idle"
    /\ result = "none"
    /\ outcome = [kind |-> "none", doc |-> NoDoc, calls |-> <<>>]
    /\ docChan = <<>>
    /\ docClosed = FALSE
    /\ errChan = <<>>
    /\ errClosed = FALSE
    /\ sent = 0
    /\ cancelled = FALSE
    /\ embedCalls = 0
    /\ addCalls = 0

\* the AddMessage calls that have not yet written their message
PendingAdds(id) ==
    Cardinality({p \in Callers : /\ callers[p].pc \in {"lock", "body", "store"}
                                 /\ callers[p].op = "AddMessage"
                                 /\ callers[p].id = id})

chatRest == <<storeVars, searchOut, syncVars, schema, initOut, scoreOut, addOut,
              embedOut, split, heap>>

\* a goroutine calls a method; it is about to take the lock
ChatCall(p) ==
    /\ callers[p].pc = "idle"
    /\ \E c \in ChatCalls :
          /\ (c.op = "AddMessage" /\ c.id \in DOMAIN conversations) =>
                Len(conversations[c.id].Messages) + PendingAdds(c.id) <= MaxMessages
          /\ callers' = [callers EXCEPT ![p] = [pc |-> "lock", op |-> c.op, id |-> c.id,
                                                 arg |-> c.arg]]
    /\ UNCHANGED <<chatRest, conversations, mu>>

\* r.mu.Lock() / r.mu.RLock() returns
ChatAcquire(p) ==
    /\ callers[p].pc = "lock"
    /\ mu.writer = "none"
    /\ IF LockKind(callers[p].op) = "Lock"
       THEN /\ mu.readers = {}
            /\ mu' = [mu EXCEPT !.writer = p]
       ELSE mu' = [mu EXCEPT !.readers = @ \cup {p}]
    /\ callers' = [callers EXCEPT ![p].pc = "body"]
    /\ UNCHANGED <<chatRest, conversations>>

\* the lookup and the computation on the caller's copy of the conversation
ChatLookup(p) ==
    /\ callers[p].pc = "body"
    /\ LET out == Body(callers[p], conversations)
       IN callers' = [callers EXCEPT ![p] =
                         [pc |-> IF out.write = "none" THEN "unlock" ELSE "store",
                          op |-> callers[p].op, id |-> callers[p].id,
                          arg |-> callers[p].arg, seen |-> conversations, out |-> out]]
    /\ UNCHANGED <<chatRest, conversations, mu>>

\* the write to r.conversations
ChatStore(p) ==
    /\ callers[p].pc = "store"
    /\ conversations' = WriteBack(conversations, callers[p].out)
    /\ callers' = [callers EXCEPT ![p].pc = "unlock"]
    /\ UNCHANGED <<chatRest, mu>>

\* the deferred Unlock / RUnlock; the method returns
ChatRelease(p) ==
    /\ callers[p].pc = "unlock"
    /\ mu' = [writer |-> IF mu.writer = p THEN "none" ELSE mu.writer,
              readers |-> mu.readers \ {p}]
    /\ callers' = [callers EXCEPT ![p] = IdleCaller]
    /\ UNCHANGED <<chatRest, conversations>>

ChatNext ==
    \E p \in Callers :
        ChatCall(p) \/ ChatAcquire(p) \/ ChatLookup(p) \/ ChatStore(p) \/ ChatRelease(p)

ChatSpec == ChatInit /\ [][ChatNext]_vars

(***************************************************************************)
(* The embedder called directly: EmbedDocuments and EmbedQuery.            *)
(***************************************************************************)
\* texts of one EmbedDocuments call
MaxTexts == 4

\* the texts given to the embedder: the empty text among them
EmbedTexts == {<<>>, <<"a">>, <<"d", "d">>}

EmbedInputs == UNION {[1..n -> EmbedTexts] : n \in 0..MaxTexts}

EmbedInit ==
    /\ StoreInit
    /\ dimension = EmbedDim

\* OpenAIEmbedder.EmbedDocuments(ctx, documents)
EmbedDocumentsCall ==
    /\ embedOut = Idle
    /\ \E documents \in EmbedInputs, failAt \in 0..(MaxRequests + 1) :
          LET r == EmbedDocuments(DefaultOptions, documents, 0, failAt)
          IN embedOut' = [op |-> "EmbedDocuments", documents |-> documents,
                          failAt |-> failAt, err |-> r.err, batch |-> r.batch,
                          vectors |-> r.vectors, sent |-> r.sent]
    /\ UNCHANGED <<storeVars, searchOut, syncVars, extVars, addOut, split, heap>>

\* the batch sizes WithBatchSize is given: negative, zero, and up to one more than
\* the default of the model
BatchSizes == (0 - 1)..(BatchSize + 1)

\* NewOpenAIEmbedder(apiKey, WithBatchSize(size)).EmbedDocuments(ctx, documents)
EmbedDocumentsWithBatchSize ==
    /\ embedOut = Idle
    /\ \E size \in BatchSizes, documents \in EmbedInputs, failAt \in {0, MaxRequests} :
          LET r == EmbedDocuments([BatchSize |-> size], documents, 0, failAt)
          IN embedOut' = [op |-> "WithBatchSize", size |-> size, documents |-> documents,
                          failAt |-> failAt, err |-> r.err, batch |-> r.batch,
                          vectors |-> r.vectors, sent |-> r.sent, depth |-> r.depth]
    /\ UNCHANGED <<storeVars, searchOut, syncVars, extVars, addOut, split, heap>>

\* OpenAIEmbedder.EmbedQuery(ctx, text)
EmbedQueryCall ==
    /\ embedOut = Idle
    /\ \E text \in EmbedTexts, providerOK \in BOOLEAN :
          LET r == EmbedQuery(text, providerOK)
          IN embedOut' = [op |-> "EmbedQuery", documents |-> <<text>>,
                          failAt |-> IF providerOK THEN 0 ELSE 1, err |-> r.err,
                          batch |-> NoBatch,
                          vectors |-> IF r.err = "nil" THEN <<r.vector>> ELSE <<>>,
                          sent |-> r.sent]
    /\ UNCHANGED <<storeVars, searchOut, syncVars, extVars, addOut, split, heap>>

\* the caller takes the result; it makes one call at a time
EmbedReturn ==
    /\ embedOut # Idle
    /\ embedOut' = Idle
    /\ UNCHANGED <<storeVars, searchOut, syncVars, extVars, addOut, split, heap>>

EmbedNext ==
    EmbedDocumentsCall \/ EmbedDocumentsWithBatchSize \/ EmbedQueryCall \/ EmbedReturn

EmbedSpec == EmbedInit /\ [][EmbedNext]_vars

(***************************************************************************)
(* The splitters called directly.                                          *)
(***************************************************************************)
\* characters of a text given to a splitter
MaxTextLen == 4
\* largest tokensPerChunk a token splitter is built with
MaxTokens == 3

SplitChars == {"a", "b", " ", ","}

SplitTexts == UNION {[1..n -> SplitChars] : n \in 0..MaxTextLen}

Separators == {<<>>, <<" ">>, <<",">>}

SplitInit ==
    /\ StoreInit
    /\ dimension = EmbedDim

\* NewCharacterSplitter(chunkSize, chunkOverlap, separator).SplitText(text)
CharacterSplitText ==
    /\ split = Idle
    /\ \E chunkSize \in 0..ChunkSize, chunkOverlap \in 0..(ChunkOverlap + 1),
          separator \in Separators, text \in SplitTexts :
          LET cs == NewCharacterSplitter(chunkSize, chunkOverlap, separator)
          IN split' = [op |-> "CharacterSplitText", pc |-> "returned", cs |-> cs,
                       text |-> text, chunks |-> SplitText(cs, text),
                       trace |-> SplitTrace(cs, text), err |-> "nil"]
    /\ UNCHANGED <<storeVars, searchOut, syncVars, extVars, addOut, embedOut, heap>>

\* NewTiktokenSplitter(tokensPerChunk, chunkOverlap, model)
NewTiktokenSplitterCall ==
    /\ split = Idle
    /\ \E tokensPerChunk \in 0..MaxTokens, chunkOverlap \in (0 - 1)..(MaxTokens + 1),
          encodingOK \in BOOLEAN :
          LET r == NewTiktokenSplitter(tokensPerChunk, chunkOverlap, encodingOK)
          IN split' = [op |-> "NewTiktokenSplitter", pc |-> "returned",
                       tokensPerChunk |-> tokensPerChunk,
                       chunkOverlap |-> chunkOverlap, encodingOK |-> encodingOK,
                       err |-> r.err, ts |-> r.ts, loaded |-> r.loaded]
    /\ UNCHANGED <<storeVars, searchOut, syncVars, extVars, addOut, embedOut, heap>>

\* ts.SplitText(text) up to its loop, on the splitter just built
TokenSplitTextCall ==
    /\ split # Idle
    /\ split.op = "NewTiktokenSplitter"
    /\ split.err = "nil"
    /\ \E text \in SplitTexts : split' = TokenStart(split.ts, text)
    /\ UNCHANGED <<storeVars, searchOut, syncVars, extVars, addOut, embedOut, heap>>

\* one pass of the loop of ts.SplitText
TokenLoopStep ==
    /\ split # Idle
    /\ split.op = "TokenSplitText"
    /\ split.pc = "loop"
    /\ split' = TokenStep(split)
    /\ UNCHANGED <<storeVars, searchOut, syncVars, extVars, addOut, embedOut, heap>>

\* the caller takes the result; it makes one call at a time
SplitReturn ==
    /\ split # Idle
    /\ split.pc = "returned"
    /\ split' = Idle
    /\ UNCHANGED <<storeVars, searchOut, syncVars, extVars, addOut, embedOut, heap>>

SplitNext ==
    \/ CharacterSplitText
    \/ NewTiktokenSplitterCall
    \/ TokenSplitTextCall
    \/ TokenLoopStep
    \/ SplitReturn

SplitSpec == SplitInit /\ [][SplitNext]_vars

(***************************************************************************)
(* Metadata in memory.  A Go map is a reference: a Document holds the      *)
(* address of its metadata map, and a map nested in a metadata value is    *)
(* held by its address too.  heap.objs[a] is the map at address a.         *)
(***************************************************************************)
\* a metadata value that is a map[string]interface{}
Ref(a) == [kind |-> "ref", v |-> a]

\* copyMetadata(metadata) for the map at addr: the copy gets the next address
HeapCopyMetadata(objs, addr) == Append(objs, copyMetadata(objs[addr]))

\* the loop of CreateDocuments over the chunks of one text
RECURSIVE HeapCreateDocuments(_, _, _)
HeapCreateDocuments(objs, chunks, addr) ==
    IF chunks = <<>> THEN [objs |-> objs, docs |-> <<>>]
    ELSE LET objs1 == HeapCopyMetadata(objs, addr)
             rest == HeapCreateDocuments(objs1, Tail(chunks), addr)
         IN [objs |-> rest.objs,
             docs |-> <<[PageContent |-> Head(chunks), Metadata |-> Len(objs1)]>>
                      \o rest.docs]

\* TiktokenSplitter.SplitDocuments for one document: Metadata: doc.Metadata
TiktokenSplitDocuments(ts, objs, doc) ==
    LET r == TiktokenSplitText(ts, doc.PageContent)
    IN IF r.err # "nil" THEN [err |-> "SplitterError", objs |-> objs, docs |-> <<>>]
       ELSE [err |-> "nil", objs |-> objs,
             docs |-> [k \in 1..Len(r.chunks) |->
                          [PageContent |-> r.chunks[k], Metadata |-> doc.Metadata]]]

\* the map at address a with the maps nested in it
DeepValue(objs, a) ==
    [k \in DOMAIN objs[a] |->
        IF objs[a][k].kind = "ref" THEN [kind |-> "map", v |-> objs[objs[a][k].v]]
        ELSE objs[a][k]]

MetaTexts == {<<"a", "b", " ", "c", " ", "d">>, <<"a", "b">>, <<>>}

\* the token splitters NewTiktokenSplitter builds
TokenSplitters ==
    {[TokensPerChunk |-> t, ChunkOverlap |-> o] : t \in 1..MaxTokens, o \in 0..MaxTokens}
    \cap {NewTiktokenSplitter(t, o, TRUE).ts : t \in 1..MaxTokens, o \in 0..MaxTokens}

\* a document whose metadata holds a string and possibly a nested map
MetaInit ==
    /\ addOut = Idle /\ embedOut = Idle /\ split = Idle /\ ExtIdle
    /\ \E text \in MetaTexts, nested \in BOOLEAN :
          heap = [op |-> "input",
                  objs |-> IF nested
                           THEN <<Put(Put(EmptyMap, "source", Str("x")), "tags", Ref(2)),
                                  Put(EmptyMap, "k", Str("v"))>>
                           ELSE <<Put(EmptyMap, "source", Str("x"))>>,
                  doc |-> [PageContent |-> text, Metadata |-> 1],
                  chunks |-> <<>>, mutated |-> 0]
    /\ store = <<>>
    /\ dimension = EmbedDim
    /\ distance = "cosine"
    /\ threshold = <<0, 1>>
    /\ defaultFilter = NilFilter
    /\ searchOut = NoSearch
    /\ pc = "idle"
    /\ result = "none"
    /\ outcome = [kind |-> "none", doc |-> NoDoc, calls |-> <<>>]
    /\ docChan = <<>>
    /\ docClosed = FALSE
    /\ errChan = <<>>
    /\ errClosed = FALSE
    /\ sent = 0
    /\ cancelled = FALSE
    /\ embedCalls = 0
    /\ addCalls = 0

\* document.SplitDocuments(splitter, docs) with a character or a token splitter
MetaSplitDocuments ==
    /\ heap.op = "input"
    /\ \E chunks \in {SplitText(CharacterSplitter, heap.doc.PageContent)}
                     \cup {TiktokenSplitText(ts, heap.doc.PageContent).chunks :
                              ts \in TokenSplitters} :
          LET r == HeapCreateDocuments(heap.objs, chunks, heap.doc.Metadata)
          IN heap' = [heap EXCEPT !.op = "split", !.objs = r.objs, !.chunks = r.docs]
    /\ UNCHANGED <<storeVars, searchOut, syncVars, extVars, addOut, embedOut, split>>

\* ts.SplitDocuments(docs) of a token splitter
MetaTiktokenSplitDocuments ==
    /\ heap.op = "input"
    /\ \E ts \in TokenSplitters :
          LET r == TiktokenSplitDocuments(ts, heap.objs, heap.doc)
          IN heap' = [heap EXCEPT !.op = "split", !.objs = r.objs, !.chunks = r.docs]
    /\ UNCHANGED <<storeVars, searchOut, syncVars, extVars, addOut, embedOut, split>>

\* the caller assigns chunks[j].Metadata["source"] = "z"
MetaMutateTop ==
    /\ heap.op = "split"
    /\ \E j \in 1..Len(heap.chunks) :
          heap' = [heap EXCEPT !.mutated = j,
                               !.objs[heap.chunks[j].Metadata] = Put(@, "source", Str("z"))]
    /\ UNCHANGED <<storeVars, searchOut, syncVars, extVars, addOut, embedOut, split>>

\* the caller assigns chunks[j].Metadata["tags"].(map[string]interface{})["k"] = "z"
MetaMutateNested ==
    /\ heap.op = "split"
    /\ \E j \in 1..Len(heap.chunks) :
          LET m == heap.objs[heap.chunks[j].Metadata]
          IN /\ "tags" \in DOMAIN m
             /\ heap' = [heap EXCEPT !.mutated = j,
                                     !.objs[m["tags"].v] = Put(@, "k", Str("z"))]
    /\ UNCHANGED <<storeVars, searchOut, syncVars, extVars, addOut, embedOut, split>>

MetaNext ==
    \/ MetaSplitDocuments
    \/ MetaTiktokenSplitDocuments
    \/ MetaMutateTop
    \/ MetaMutateNested

MetaSpec == MetaInit /\ [][MetaNext]_vars

(***************************************************************************)
(* Properties of the Sync engine.                                          *)
(***************************************************************************)
\* the step in which Sync receives a document from the document channel
RecvStep == pc = "select" /\ docChan # <<>> /\ Len(docChan') < Len(docChan)

\* some stored chunk carries the document's source and last_modified
HasIndexedVersion(rows, doc) ==
    \E i \in 1..Len(rows) :
        /\ Get(rows[i].metadata, "source") = ToJSON(Str(doc.Source))
        /\ Get(rows[i].metadata, "last_modified")
              = ToJSON(Get(doc.Metadata, "last_modified"))

EmbedErrors == {"EmptyInput", "APIError"}
StoreAddErrors == {"INVALID_DIMENSIONS", "ADD_FAILED"}

\* C1: once Sync has indexed a document of source X, every stored chunk of X
\* carries that document's last_modified (the chunks of older versions are gone).
C1_OnlyLatestVersion ==
    outcome.kind = "indexed" =>
        \A i \in 1..Len(store) :
            Get(store[i].metadata, "source") = ToJSON(Str(outcome.doc.Source)) =>
                Get(store[i].metadata, "last_modified")
                    = ToJSON(Get(outcome.doc.Metadata, "last_modified"))

\* C2: when the probe reports the received document as already indexed, the step
\* makes no embedding call and no store call, leaves the store as it was, and
\* Sync goes on with its loop (or returns the probe's own failure).
C2_UnchangedIsSkipped ==
    [][(RecvStep /\ documentNeedsUpdate(store, Head(docChan), TRUE).exists) =>
          /\ store' = store
          /\ embedCalls' = embedCalls
          /\ addCalls' = addCalls
          /\ (pc' = "select" \/ result' = "SEARCH_FAILED")]_vars

C2_Witness == pc = "select" /\ outcome.kind = "skipped" /\ Len(store) > 0

\* C3: a received document is classified as already indexed exactly when some
\* stored chunk equals it on source and last_modified, whatever the type of
\* last_modified (unless the probe itself fails).
C3_ProbeIsExact ==
    [][(RecvStep /\ result' # "SEARCH_FAILED") =>
          ((outcome'.kind = "skipped") <=> HasIndexedVersion(store, Head(docChan)))]_vars

\* C4: Sync returns nil when it finds the document channel closed, returns the
\* error it receives from the error channel, consumes nothing after it has
\* returned, and returns eventually once the document channel is closed or an
\* error is pending.
C4_SyncEnds ==
    /\ [][(pc = "select" /\ docChan = <<>> /\ docClosed /\ errChan = <<>> /\ pc' # pc)
             => (pc' = "returned" /\ result' = "nil")]_vars
    /\ [][(pc = "select" /\ errChan # <<>> /\ Len(errChan') < Len(errChan))
             => (pc' = "returned" /\ result' = Head(errChan))]_vars
    /\ [][(pc = "returned" /\ pc' = "returned")
             => (/\ store' = store
                 /\ embedCalls' = embedCalls
                 /\ Len(docChan') >= Len(docChan)
                 /\ SubSeq(docChan', 1, Len(docChan)) = docChan)]_vars
    /\ ((pc = "select" /\ (docClosed \/ errChan # <<>>)) ~> (pc = "returned"))

C4_Witness == pc = "returned" /\ result = "nil" /\ docClosed /\ Len(store) > 0

\* C5: once the context is cancelled, Sync receives no further document.
C5_StopsOnCancel == [][cancelled => ~RecvStep]_vars

\* C6: a failed probe, split, embedding or store call makes Sync return the error
\* of that call; each call is made at most once; Sync goes on with its loop only
\* after a document that was skipped or indexed, and a run that has returned
\* receives no later document.
C6_AbortsOnError ==
    /\ [][(pc = "returned" /\ pc' = "returned") =>
             (Len(docChan') >= Len(docChan) /\ store' = store /\ result' = result)]_vars
    /\ [][RecvStep =>
             /\ embedCalls' <= embedCalls + 1
             /\ addCalls' <= addCalls + 1
             /\ (pc' = "select" =>
                   \/ (documentNeedsUpdate(store, Head(docChan), TRUE).exists
                         /\ store' = store)
                   \/ (addCalls' = addCalls + 1 /\ Len(store') > Len(store)))
             /\ (pc' = "returned" =>
                   /\ store' = store
                   /\ IF addCalls' # addCalls THEN result' \in StoreAddErrors
                      ELSE IF embedCalls' # embedCalls THEN result' \in EmbedErrors
                      ELSE result' \in {"SEARCH_FAILED", "SplitterError"})]_vars

C6_Witness == pc = "returned" /\ result = "ADD_FAILED" /\ outcome.kind = "failed"

\* C7: when the embedding of a document's chunks fails, the store's AddDocuments
\* is not called and no row is added; rows are added only with the embeddings of
\* their own contents.
C7_NoAddWithoutEmbeddings ==
    [][RecvStep =>
          /\ (embedCalls' # embedCalls /\ pc' = "returned" /\ result' \in EmbedErrors
                => (addCalls' = addCalls /\ store' = store))
          /\ (addCalls' # addCalls => embedCalls' = embedCalls + 1)
          /\ \A i \in (Len(store) + 1)..Len(store') :
                store'[i].embedding = Embedding(store'[i].content)]_vars

C7_Witness ==
    /\ pc = "returned"
    /\ result = "APIError"
    /\ Len(SplitText(CharacterSplitter, outcome.doc.Content)) > 1

(***************************************************************************)
(* Properties of the retrieval facade.                                     *)
(***************************************************************************)
FilterKeys(f) == IF f.isNil THEN {} ELSE DOMAIN f.m

RECURSIVE IsSubSeq(_, _)
IsSubSeq(a, b) ==
    IF a = <<>> THEN TRUE
    ELSE IF b = <<>> THEN FALSE
    ELSE IF Head(a) = Head(b) THEN IsSubSeq(Tail(a), Tail(b))
    ELSE IsSubSeq(a, Tail(b))

\* C8: with a positive threshold a successful search returns exactly the store's
\* results whose score reaches it; with a threshold <= 0 it returns them all.
C8_Threshold ==
    (searchOut.done /\ searchOut.err = "nil") =>
        IF RatLT(<<0, 1>>, threshold)
        THEN /\ \A i \in 1..Len(searchOut.docs) :
                   RatLE(threshold, searchOut.docs[i].Score)
             /\ Len(searchOut.docs)
                   = Cardinality({i \in 1..Len(searchOut.vsDocs) :
                                     RatLE(threshold, searchOut.vsDocs[i].Score)})
        ELSE searchOut.docs = searchOut.vsDocs

C8_Witness ==
    /\ searchOut.done
    /\ searchOut.err = "nil"
    /\ RatLT(<<0, 1>>, threshold)
    /\ Len(searchOut.docs) > 0
    /\ Len(searchOut.docs) < Len(searchOut.vsDocs)

\* C9: a successful search returns at most limit results, in non-increasing
\* order of score, and they are a subsequence of what the store returned.
C9_LimitedAndRanked ==
    (searchOut.done /\ searchOut.err = "nil") =>
        /\ Len(searchOut.docs) <= searchOut.limit
        /\ \A i \in 1..(Len(searchOut.docs) - 1) :
              RatLE(searchOut.docs[i + 1].Score, searchOut.docs[i].Score)
        /\ IsSubSeq(searchOut.docs, searchOut.vsDocs)

C9_Witness ==
    /\ searchOut.done
    /\ searchOut.err = "nil"
    /\ Len(store) > searchOut.limit
    /\ Len(searchOut.docs) = searchOut.limit
    /\ Len(searchOut.docs) >= 2
    /\ RatLT(searchOut.docs[2].Score, searchOut.docs[1].Score)

\* C10: the filter given to the store has the keys of the default filter and of
\* the request filter; a key of the request filter has the request's value, any
\* other key the default's.
C10_MergedFilter ==
    (searchOut.done /\ searchOut.storeCalled) =>
        /\ ~searchOut.mergedFilter.isNil
        /\ DOMAIN searchOut.mergedFilter.m
              = FilterKeys(defaultFilter) \cup FilterKeys(searchOut.filter)
        /\ \A k \in DOMAIN searchOut.mergedFilter.m :
              searchOut.mergedFilter.m[k]
                 = IF k \in FilterKeys(searchOut.filter)
                   THEN searchOut.filter.m[k]
                   ELSE defaultFilter.m[k]

C10_Witness ==
    /\ searchOut.done
    /\ searchOut.storeCalled
    /\ \E k \in FilterKeys(defaultFilter) \cap FilterKeys(searchOut.filter) :
          defaultFilter.m[k] # searchOut.filter.m[k]

(***************************************************************************)
(* Properties of the pgvector store.                                       *)
(***************************************************************************)
\* C11: an AddDocuments call with a vector whose length is not the configured
\* dimension returns the invalid-dimensions error, which carries the configured
\* dimension and the length of such a vector, and leaves the table as it was.
C11_DimensionMismatch ==
    [][(addOut = Idle /\ addOut' # Idle
          /\ \E i \in 1..Len(addOut'.vectors) : Len(addOut'.vectors[i]) # dimension)
       => /\ addOut'.err = "INVALID_DIMENSIONS"
          /\ addOut'.expected = dimension
          /\ \E i \in 1..Len(addOut'.vectors) :
                /\ Len(addOut'.vectors[i]) # dimension
                /\ addOut'.got = Len(addOut'.vectors[i])
          /\ store' = store]_vars

\* the offending vector comes after a well-formed one, on a table that has rows
C11_Witness ==
    /\ addOut # Idle
    /\ addOut.err = "INVALID_DIMENSIONS"
    /\ Len(addOut.vectors) = 2
    /\ Len(addOut.vectors[1]) = dimension
    /\ Len(store) > 0

(***************************************************************************)
(* Properties of the embedder.                                             *)
(***************************************************************************)
RECURSIVE Flatten(_)
Flatten(seqs) == IF seqs = <<>> THEN <<>> ELSE Head(seqs) \o Flatten(Tail(seqs))

\* C12: an embedding call whose input is empty (no documents, an empty query, or
\* an empty text among the documents) returns EmptyInput and has made no
\* request to the provider.
C12_EmptyInputRejected ==
    (embedOut # Idle
        /\ (embedOut.documents = <<>>
              \/ \E i \in 1..Len(embedOut.documents) : embedOut.documents[i] = <<>>))
    => (embedOut.err = "EmptyInput" /\ embedOut.sent = <<>>)

\* C13: an EmbedDocuments call with more texts than BatchSize sends the texts in
\* order, without gap or repetition, in requests of 1..BatchSize texts; when it
\* succeeds it returns the embedding of every text at the text's position; when
\* a request fails it returns no vector and its error names that request's
\* batch number.
C13_Batching ==
    (embedOut # Idle /\ embedOut.op = "EmbedDocuments"
        /\ Len(embedOut.documents) > BatchSize)
    => /\ \A k \in 1..Len(embedOut.sent) :
             Len(embedOut.sent[k]) \in 1..BatchSize
       /\ \A k \in 1..(Len(embedOut.sent) - 1) : Len(embedOut.sent[k]) = BatchSize
       /\ Flatten(embedOut.sent)
             = SubSeq(embedOut.documents, 1, Len(Flatten(embedOut.sent)))
       /\ embedOut.err = "nil" =>
             /\ Flatten(embedOut.sent) = embedOut.documents
             /\ Len(embedOut.vectors) = Len(embedOut.documents)
             /\ \A i \in 1..Len(embedOut.documents) :
                   embedOut.vectors[i] = Embedding(embedOut.documents[i])
       /\ embedOut.err # "nil" =>
             /\ embedOut.vectors = <<>>
             /\ embedOut.failAt = Len(embedOut.sent)
             /\ embedOut.batch = Len(embedOut.sent) - 1

\* a call of more than BatchSize texts whose second request fails
C13_Witness ==
    /\ embedOut # Idle
    /\ embedOut.op = "EmbedDocuments"
    /\ embedOut.err = "APIError"
    /\ embedOut.batch = 1
    /\ Len(embedOut.documents) > BatchSize

(***************************************************************************)
(* Properties of the splitters.                                            *)
(***************************************************************************)
\* C14: no chunk that CharacterSplitter.SplitText returns is the empty string.
C14_NoEmptyChunk ==
    (split # Idle /\ split.op = "CharacterSplitText")
    => \A k \in 1..Len(split.chunks) : split.chunks[k] # <<>>

\* window k of a token splitter with window T and overlap O over n tokens
Window(k, T, O, n) ==
    <<(k - 1) * (T - O),
      IF (k - 1) * (T - O) + T > n THEN n ELSE (k - 1) * (T - O) + T>>

\* C15: a returned TiktokenSplitter.SplitText over n > 0 tokens has emitted the
\* windows starting at 0, T-O, 2(T-O), ..., each cut at n, up to and including
\* the first that ends at n; each chunk is the text of its window; every token
\* lies in a window; every window but the last has T tokens; consecutive
\* windows share O tokens.
C15_Windows ==
    (split # Idle /\ split.op = "TokenSplitText" /\ split.pc = "returned"
        /\ Len(split.tokens) > 0)
    => LET T == split.ts.TokensPerChunk
           O == split.ts.ChunkOverlap
           n == Len(split.tokens)
           w == split.windows
           m == Len(split.windows)
       IN /\ m >= 1
          /\ Len(split.chunks) = m
          /\ \A k \in 1..m :
                /\ w[k] = Window(k, T, O, n)
                /\ split.chunks[k] = Decode(SubSeq(split.tokens, w[k][1] + 1, w[k][2]))
          /\ w[m][2] = n
          /\ \A k \in 1..(m - 1) :
                /\ w[k][2] < n
                /\ w[k][2] - w[k][1] = T
                /\ w[k][2] - w[k + 1][1] = O
          /\ \A i \in 1..n : \E k \in 1..m : w[k][1] < i /\ i <= w[k][2]

\* the parameters NewTiktokenSplitter rejects
BadParameters(tokensPerChunk, chunkOverlap) ==
    tokensPerChunk <= 0 \/ chunkOverlap < 0 \/ chunkOverlap >= tokensPerChunk

\* C16 as stated: NewTiktokenSplitter fails, without a splitter and before it
\* loads an encoding, on tokensPerChunk <= 0, chunkOverlap < 0 or
\* chunkOverlap >= tokensPerChunk, and succeeds on every other pair.
C16_SucceedsOnValid ==
    (split # Idle /\ split.op = "NewTiktokenSplitter")
    => IF BadParameters(split.tokensPerChunk, split.chunkOverlap)
       THEN split.err # "nil" /\ split.ts = NoSplitter /\ ~split.loaded
       ELSE /\ split.err = "nil"
            /\ split.ts = [TokensPerChunk |-> split.tokensPerChunk,
                            ChunkOverlap |-> split.chunkOverlap]

\* C16 amended: NewTiktokenSplitter fails, without a splitter and before it
\* loads an encoding, on tokensPerChunk <= 0, chunkOverlap < 0 or
\* chunkOverlap >= tokensPerChunk; on every other pair it loads the encoding,
\* and it succeeds exactly when the encoding loads.
C16_ParameterCheck ==
    (split # Idle /\ split.op = "NewTiktokenSplitter")
    => IF BadParameters(split.tokensPerChunk, split.chunkOverlap)
       THEN split.err # "nil" /\ split.ts = NoSplitter /\ ~split.loaded
       ELSE /\ split.loaded
            /\ (split.err = "nil") <=> split.encodingOK
            /\ split.err = "nil" =>
                  split.ts = [TokensPerChunk |-> split.tokensPerChunk,
                              ChunkOverlap |-> split.chunkOverlap]
            /\ split.err # "nil" => split.ts = NoSplitter

\* an overlap equal to the window is rejected although the encoding would load
C16_Witness ==
    /\ split # Idle
    /\ split.op = "NewTiktokenSplitter"
    /\ split.tokensPerChunk > 0
    /\ split.chunkOverlap = split.tokensPerChunk
    /\ split.encodingOK
    /\ split.err = "SplitterError"

\* C17: the loop of TiktokenSplitter.SplitText makes at most
\* ceil(n / (tokensPerChunk - chunkOverlap)) passes over n tokens, a pass that
\* is not the last moves start forward, and the loop never returns its
\* 'infinite loop detected' error.
C17_LoopBound ==
    /\ []((split # Idle /\ split.op = "TokenSplitText")
            => /\ (split.iteration - 1)
                     * (split.ts.TokensPerChunk - split.ts.ChunkOverlap)
                  < Len(split.tokens) \/ split.iteration = 0
               /\ split.err = "nil")
    /\ [][(split # Idle /\ split.op = "TokenSplitText" /\ split.pc = "loop"
            /\ split' # Idle /\ split'.pc = "loop")
           => split'.start > split.start]_vars

\* the loop has made exactly ceil(n / (T - O)) passes, more than one
C17_Witness ==
    /\ split # Idle
    /\ split.op = "TokenSplitText"
    /\ split.pc = "returned"
    /\ split.iteration >= 2
    /\ split.ts.ChunkOverlap > 0
    /\ Len(split.tokens)
          <= split.iteration * (split.ts.TokensPerChunk - split.ts.ChunkOverlap)

\* C19: SplitText of the empty text returns no chunk and no error, for the
\* character splitter and for the token splitter.
C19_EmptyText ==
    (split # Idle /\ split.op \in {"CharacterSplitText", "TokenSplitText"}
        /\ split.pc = "returned" /\ split.text = <<>>)
    => (split.chunks = <<>> /\ split.err = "nil")

C19_Witness ==
    /\ split # Idle
    /\ split.op = "TokenSplitText"
    /\ split.pc = "returned"
    /\ split.text = <<>>
    /\ split.ts.ChunkOverlap > 0

\* s without its white space
StripSpace(s) == SelectSeq(s, LAMBDA c : c \notin WhiteSpace)

IsSubstring(p, s) == \E i \in 0..(Len(s) - Len(p)) : SubSeq(s, i + 1, i + Len(p)) = p

\* the pieces occur in this order in the chunks (a piece of white space only
\* occurs anywhere)
RECURSIVE PiecesIn(_, _)
PiecesIn(pieces, chunks) ==
    IF pieces = <<>> THEN TRUE
    ELSE IF TrimSpace(Head(pieces)) = <<>> THEN PiecesIn(Tail(pieces), chunks)
    ELSE IF chunks = <<>> THEN FALSE
    ELSE \/ /\ IsSubstring(TrimSpace(Head(pieces)), Head(chunks))
            /\ PiecesIn(Tail(pieces), chunks)
         \/ PiecesIn(pieces, Tail(chunks))

RECURSIVE Join(_, _)
Join(seqs, sep) ==
    IF seqs = <<>> THEN <<>>
    ELSE IF Len(seqs) = 1 THEN Head(seqs)
    ELSE Head(seqs) \o sep \o Join(Tail(seqs), sep)

\* a closed buffer without the overlap text it was seeded with and without the
\* separator written after that text, trimmed as the chunk is
Remainder(b, sep) ==
    TrimSpace(Drop(b.buffer, IF b.seed = <<>> THEN 0 ELSE Len(b.seed) + Len(sep)))

\* C20: the pieces of the text occur in order in the chunks, and the chunks
\* without their overlap prefixes, joined by the separator, are the text up to
\* white space.
C20_RoundTrip ==
    (split # Idle /\ split.op = "CharacterSplitText")
    => /\ PiecesIn(StringsSplit(split.text, split.cs.Separator), split.chunks)
       /\ StripSpace(Join([k \in 1..Len(split.trace) |->
                              Remainder(split.trace[k], split.cs.Separator)],
                          split.cs.Separator))
             = StripSpace(split.text)

\* the round trip of C20 for a splitter whose separator is white space
RoundTripOnSpace ==
    (split # Idle /\ split.op = "CharacterSplitText" /\ split.cs.Separator = <<" ">>)
    => /\ PiecesIn(StringsSplit(split.text, split.cs.Separator), split.chunks)
       /\ StripSpace(Join([k \in 1..Len(split.trace) |->
                              Remainder(split.trace[k], split.cs.Separator)],
                          split.cs.Separator))
             = StripSpace(split.text)

(***************************************************************************)
(* Properties of the chunks' metadata.                                     *)
(***************************************************************************)
\* C18: an assignment into the metadata of one chunk, at top level or inside a
\* nested map, changes neither the metadata of another chunk nor the metadata
\* of the document that was split.
C18_IndependentMetadata ==
    [][(heap.op = "split" /\ heap'.op = "split")
       => /\ \A i \in 1..Len(heap.chunks) :
                i # heap'.mutated =>
                   DeepValue(heap'.objs, heap.chunks[i].Metadata)
                      = DeepValue(heap.objs, heap.chunks[i].Metadata)
          /\ DeepValue(heap'.objs, heap.doc.Metadata)
                = DeepValue(heap.objs, heap.doc.Metadata)]_vars

(***************************************************************************)
(* InitDB.                                                                 *)
(***************************************************************************)
\* C21 as stated: while the database answers, InitDB(false) on an initialised store
\* succeeds and leaves the schema and every chunk unchanged, and a successful
\* InitDB(true) leaves an initialised store with no chunks.
C21_Idempotent ==
    (initOut # Idle /\ initOut.probeOK /\ initOut.failAt = 0) =>
        /\ (~initOut.forceRecreate /\ Initialised(initOut.before.schema)) =>
              /\ initOut.err = "nil"
              /\ schema = initOut.before.schema
              /\ store = initOut.before.rows
        /\ (initOut.forceRecreate /\ initOut.err = "nil") =>
              Initialised(schema) /\ store = <<>>

\* C21, amended: InitDB(false) on an initialised store leaves the schema and every
\* chunk unchanged whatever the database does, and it returns DBExists, not
\* success, whenever its existence probe answers; a successful InitDB(true) leaves
\* an initialised store with no chunks.
C21_StateIdempotent ==
    initOut # Idle =>
        /\ (~initOut.forceRecreate /\ Initialised(initOut.before.schema)) =>
              /\ schema = initOut.before.schema
              /\ store = initOut.before.rows
              /\ initOut.probeOK => initOut.err = "DBExists"
        /\ (initOut.forceRecreate /\ initOut.err = "nil") =>
              Initialised(schema) /\ store = <<>>

\* a second InitDB(false) on an initialised store that holds chunks, from a store
\* opened with another metric than the one the index was built for
C21_Witness ==
    /\ initOut # Idle
    /\ ~initOut.forceRecreate
    /\ Initialised(initOut.before.schema)
    /\ initOut.before.rows # <<>>
    /\ initOut.err = "DBExists"
    /\ getOperatorAndFunction(distance) # schema.vectorIndex


(***************************************************************************)
(* The chat history.                                                       *)
(***************************************************************************)
\* C22: with MaxMessages = M no conversation ever holds more than M messages.
C22_MaxMessages ==
    \A id \in DOMAIN conversations : Len(conversations[id].Messages) <= MaxMessages

InCritical(p) == callers[p].pc \in {"body", "store", "unlock"}

\* C25: while a write operation is in its critical section no other operation is
\* in one; a write stores what it computed from the map as it still is (no update
\* of another caller is lost in between); and what a read is about to return is
\* what the method computes on the map as it is (it saw no half-applied write).
C25_LockDiscipline ==
    \A p \in Callers :
        /\ (InCritical(p) /\ callers[p].op \in WriteOps) =>
              \A q \in Callers \ {p} : ~InCritical(q)
        /\ callers[p].pc = "store" => callers[p].seen = conversations
        /\ (callers[p].pc = "unlock" /\ callers[p].op \in ReadOps) =>
              callers[p].out = Body(callers[p], conversations)
        /\ (callers[p].pc = "unlock" /\ callers[p].op \in WriteOps) =>
              conversations = WriteBack(callers[p].seen, callers[p].out)

\* two reads overlap in their critical sections, on a conversation that holds the
\* messages of two AddMessage calls
C25_Witness ==
    /\ \A p \in Callers : InCritical(p) /\ callers[p].op \in ReadOps
    /\ \E id \in DOMAIN conversations : Len(conversations[id].Messages) > 1


(***************************************************************************)
(* The Sync engine, continued.                                             *)
(***************************************************************************)
\* the positions in the calls made for the last document of the calls of op
CallsOf(ops) == {i \in 1..Len(outcome.calls) : outcome.calls[i].op \in ops}

\* C23: for a document Sync has processed as Unseen or Changed, it issued exactly
\* one store Delete, with the filter {source: <the document's source>}, after the
\* split and before it embedded and added the chunks; and it never issues a
\* Delete with a nil or empty filter.
C23_DeleteBeforeAdd ==
    /\ outcome.kind = "indexed" =>
          \E d \in CallsOf({"Delete"}) :
              /\ CallsOf({"Delete"}) = {d}
              /\ outcome.calls[d].filter
                     = Filter(Put(EmptyMap, "source", Str(outcome.doc.Source)))
              /\ \A i \in CallsOf({"SplitDocuments"}) : i < d
              /\ \A i \in CallsOf({"EmbedDocuments", "AddDocuments"}) : d < i
    /\ \A d \in CallsOf({"Delete"}) :
          /\ ~outcome.calls[d].filter.isNil
          /\ DOMAIN outcome.calls[d].filter.m # {}


(***************************************************************************)
(* The similarity score.                                                   *)
(***************************************************************************)
RatEq(a, b) == a[1] * b[2] = b[1] * a[2]

RatSub(a, b) == <<a[1] * b[2] - b[1] * a[2], a[2] * b[2]>>

C26_NilMeansAllProcessed ==
    [][(pc = "select" /\ pc' = "returned" /\ result' = "nil")
       => (errChan = <<>> /\ docChan = <<>>)]_vars


(***************************************************************************)
(* The embedder's batch size.                                              *)
(***************************************************************************)
\* C30: EmbedDocuments on a non-empty list of n texts with batch size B ends by
\* returning, never by a panic; for B >= 1 it nests at most two deep and, when
\* no request fails, makes ceil(n / B) requests for n > B and one for n <= B;
\* for B <= 0 it returns an error.
C30_EveryBatchSize ==
    (embedOut # Idle /\ embedOut.op = "WithBatchSize" /\ embedOut.documents # <<>>)
    => LET n == Len(embedOut.documents)
           B == embedOut.size
       IN /\ embedOut.err \notin {DivideByZero, SliceBounds}
          /\ B >= 1 =>
                /\ embedOut.depth <= 2
                /\ embedOut.err = "nil" =>
                      Len(embedOut.sent) = IF n > B THEN (n + B - 1) \div B ELSE 1
          /\ B <= 0 => embedOut.err # "nil"


(***************************************************************************)
(* The Sync engine on a document without chunks.                           *)
(***************************************************************************)
\* the calls of op among the calls Sync makes in the step for the received document
CallsMade(ops) == {i \in 1..Len(outcome'.calls) : outcome'.calls[i].op \in ops}

\* C27: when Sync hands a received document whose content splits into zero chunks
\* to processData and the split succeeds, the facade's AddDocuments is called and
\* the embedder is asked, Sync returns EmptyInput and stops, the store is not
\* called to add and keeps its rows, and the document counts as failed.
C27_EmptyDocumentFails ==
    [][(RecvStep
          /\ SplitText(CharacterSplitter, Head(docChan).Content) = <<>>
          /\ CallsMade({"SplitDocuments"}) # {}
          /\ result' # "SplitterError")
       => /\ CallsMade({"EmbedDocuments"}) # {}
          /\ CallsMade({"AddDocuments"}) = {}
          /\ result' = "EmptyInput"
          /\ pc' = "returned"
          /\ outcome'.kind = "failed"
          /\ store' = store]_vars

\* Sync has returned EmptyInput for a document without chunks while the next
\* document waits on the channel
C27_Witness ==
    /\ pc = "returned"
    /\ result = "EmptyInput"
    /\ outcome.kind = "failed"
    /\ outcome.doc.Content = <<>>
    /\ docChan # <<>>


(***************************************************************************)
(* The size of the character splitter's chunks.                            *)
(***************************************************************************)
\* C28: with 0 <= chunkOverlap < chunkSize and no piece of the text between two
\* separators longer than chunkSize, every chunk SplitText returns has at most
\* chunkSize characters.
C28_ChunkWithinSize ==
    (split # Idle /\ split.op = "CharacterSplitText"
        /\ split.cs.ChunkOverlap \in 0..(split.cs.ChunkSize - 1)
        /\ \A i \in 1..Len(StringsSplit(split.text, split.cs.Separator)) :
              Len(StringsSplit(split.text, split.cs.Separator)[i]) <= split.cs.ChunkSize)
    => \A k \in 1..Len(split.chunks) : Len(split.chunks[k]) <= split.cs.ChunkSize


(***************************************************************************)
(* The filters across searches.                                            *)
(***************************************************************************)
\* C29: no facade call changes the default filter, a search leaves the request
\* filter of its caller as it was given, and the filter a search passes to the
\* store has no key beyond those of the default filter and of its own request.
C29_FiltersUntouched ==
    [][/\ defaultFilter' = defaultFilter
       /\ searchOut'.done =>
             /\ searchOut'.filterAfter = searchOut'.filter
             /\ searchOut'.storeCalled =>
                   DOMAIN searchOut'.mergedFilter.m
                      \subseteq FilterKeys(defaultFilter) \cup FilterKeys(searchOut'.filter)]_vars

\* a search with a default filter has merged a request filter that has a key of
\* its own
C29_Witness ==
    /\ searchOut.done
    /\ searchOut.storeCalled
    /\ ~defaultFilter.isNil
    /\ FilterKeys(searchOut.filter) \ FilterKeys(defaultFilter) # {}


====
